---- MODULE Spec2Model ----
(***************************************************************************)
(* Distributed gradient aggregation of pcl-projects/STRN (new_models):     *)
(*   - the manager's greedy partitioning of the named parameters           *)
(*     (ps/training_sgd.py main, all_reduce/training_sgd_allreduce.py      *)
(*     main),                                                              *)
(*   - the ring exchange of all_reduce Worker.run_worker,                  *)
(*   - the parameter server's ps_computing and the workers that call it.   *)
(* Three specifications share the module: SpecPartition, SpecRing, SpecPS. *)
(* Each leaves the variables of the other two at their initial value.      *)
(***************************************************************************)
EXTENDS Integers, Sequences, FiniteSets, Bags, TLC

VARIABLES
    mgr,        \* locals of the manager branch of ps/training_sgd.py main
    armgr,      \* locals of the manager branch of training_sgd_allreduce.py main
    ring,       \* the all-reduce workers (one record per worker)
    rcfg,       \* all-reduce job: wrk_num, wrk_pkey_lists, wrk_pkey_locs, steps
    ps,         \* the ParameterServer objects (one record per shard)
    calls,      \* the ps_computing calls (worker, shard) and their position
    wk,         \* the parameter-server workers (one record per worker)
    pcfg,       \* parameter-server job: worker_num, ps_num, partition, steps
    tst         \* the Tester object and its test_model loop

vars == <<mgr, armgr, ring, rcfg, ps, calls, wk, pcfg, tst>>

\* ------------------------------------------------------------------ bounds
\* Partitioning: at most MaxParams named parameters, numel in 1..MaxNumel,
\* 1..MaxShards shards.
MaxParams == 4
MaxNumel == 3
MaxShards == 3

\* ------------------------------------------------------------ small helpers
Range(f) == {f[x] : x \in DOMAIN f}

\* All sequences over S of length 0..n.
SeqsUpTo(S, n) == UNION {[1..k -> S] : k \in 0..n}

\* ================================================================ PARTITION
\* A named parameter is identified by its position in model.named_parameters()
\* (dict keys are unique); an item is <<key, numel>>.
Items(named) == [k \in 1..Len(named) |-> <<k, named[k]>>]

\* sorted(items, key=lambda x: x[1], reverse=True): Python's sort is stable,
\* and with reverse=True items of equal numel keep their original order.
\* InsertDesc puts x behind every item whose numel is >= x's.
RECURSIVE InsertDesc(_, _)
InsertDesc(x, s) ==
    IF s = <<>> THEN <<x>>
    ELSE IF Head(s)[2] >= x[2] THEN <<Head(s)>> \o InsertDesc(x, Tail(s))
    ELSE <<x>> \o s

RECURSIVE SortedDesc(_)
SortedDesc(items) ==
    IF items = <<>> THEN <<>>
    ELSE InsertDesc(items[Len(items)], SortedDesc(SubSeq(items, 1, Len(items) - 1)))

\* np.argmin(nums): the first (lowest) index holding the minimum. nums is a
\* function on 0..N-1.
ArgMax(nums) ==
    CHOOSE j \in DOMAIN nums :
        /\ \A k \in DOMAIN nums : nums[k] <= nums[j]
        /\ \A k \in DOMAIN nums : nums[k] = nums[j] => j <= k

ArgMinLast(nums) ==
    CHOOSE j \in DOMAIN nums :
        /\ \A k \in DOMAIN nums : nums[j] <= nums[k]
        /\ \A k \in DOMAIN nums : nums[k] = nums[j] => k <= j

ArgMin(nums) ==
    CHOOSE j \in DOMAIN nums :
        /\ \A k \in DOMAIN nums : nums[j] <= nums[k]
        /\ \A k \in DOMAIN nums : nums[k] = nums[j] => j <= k

EmptyMap == [k \in {} |-> 0]

\* ps/training_sgd.py main, lines 719-727: the locals before the sort.
MgrStart(named, n) ==
    [pc |-> "sort", named_parameters |-> named, ps_num |-> n,
     param_numel |-> Items(named), i |-> 0,
     ps_param_nums |-> [j \in 0..n-1 |-> 0],
     ps_param_lists |-> [j \in 0..n-1 |-> <<>>],
     param_ps_idx |-> EmptyMap, param_loc_idx |-> EmptyMap]

\* line 728
MgrSorted(m) == [m EXCEPT !.pc = "assign", !.param_numel = SortedDesc(m.param_numel)]

\* lines 729-735: one iteration of the assignment loop (i is the loop index,
\* 0-based; param_numel[i] of the code is m.param_numel[m.i + 1]).
MgrAssignedLate(m) ==
    LET key == m.param_numel[m.i + 1][1]
        numel == m.param_numel[m.i + 1][2]
        idx == ArgMin(m.ps_param_nums)
    IN  [m EXCEPT !.param_ps_idx = @ @@ (key :> idx),
                  !.param_loc_idx = @ @@ (key :> Len(m.ps_param_lists[idx]) + 1),
                  !.ps_param_nums[idx] = @ + numel,
                  !.ps_param_lists[idx] = Append(@, key),
                  !.i = @ + 1]

MgrAssigned(m) ==
    LET key == m.param_numel[m.i + 1][1]
        numel == m.param_numel[m.i + 1][2]
        idx == ArgMin(m.ps_param_nums)
    IN  [m EXCEPT !.param_ps_idx = @ @@ (key :> idx),
                  !.param_loc_idx = @ @@ (key :> Len(m.ps_param_lists[idx])),
                  !.ps_param_nums[idx] = @ + numel,
                  !.ps_param_lists[idx] = Append(@, key),
                  !.i = @ + 1]

\* all_reduce/training_sgd_allreduce.py main, lines 600-610.
ArStart(named, n) ==
    [pc |-> "sort", named_parameters |-> named, wrk_num |-> n,
     pkey_numel |-> Items(named), i |-> 0,
     wrk_param_nums |-> [j \in 0..n-1 |-> 0],
     wrk_pkey_lists |-> [j \in 0..n-1 |-> <<>>],
     wrk_pkey_locs |-> EmptyMap]

\* line 611
ArSorted(m) == [m EXCEPT !.pc = "assign", !.pkey_numel = SortedDesc(m.pkey_numel)]

\* lines 612-619
ArAssigned(m) ==
    LET key == m.pkey_numel[m.i + 1][1]
        numel == m.pkey_numel[m.i + 1][2]
        idx == ArgMin(m.wrk_param_nums)
    IN  [m EXCEPT !.wrk_param_nums[idx] = @ + numel,
                  !.wrk_pkey_locs = @ @@ (key :> <<idx, Len(m.wrk_pkey_lists[idx])>>),
                  !.wrk_pkey_lists[idx] = Append(@, key),
                  !.i = @ + 1]

\* The whole partitioning, as the workers and shards later see its result.
RECURSIVE MgrRun(_)
MgrRun(m) ==
    IF m.pc = "sort" THEN MgrRun(MgrSorted(m))
    ELSE IF m.i < Len(m.param_numel) THEN MgrRun(MgrAssigned(m))
    ELSE m

RECURSIVE ArRun(_)
ArRun(m) ==
    IF m.pc = "sort" THEN ArRun(ArSorted(m))
    ELSE IF m.i < Len(m.pkey_numel) THEN ArRun(ArAssigned(m))
    ELSE m

\* The spec's scenario: element counts [50,40,30,20,10] on 3 shards.
Scenario == [numels |-> <<50, 40, 30, 20, 10>>, shards |-> 3]

PartitionInputs ==
    {<<named, n>> : named \in SeqsUpTo(1..MaxNumel, MaxParams), n \in 1..MaxShards}
        \cup {<<Scenario.numels, Scenario.shards>>}

Idle == [pc |-> "idle"]

\* Tester.__init__ (ps/training_sgd.py 494-530, all_reduce 382-418): the last
\* assignment is self.stop_flag = False. test_model starts in its wait for
\* the next test time; reqs are its get_ps_params calls, params what they
\* returned, step_num what get_step_num returned, fetches the fetch rounds
\* begun.
TesterInit ==
    [pc |-> "wait", stop_flag |-> FALSE, reqs |-> <<>>, params |-> <<>>, step_num |-> 0,
     fetches |-> 0]

PartitionInit ==
    /\ \E inp \in PartitionInputs :
          /\ mgr = MgrStart(inp[1], inp[2])
          /\ armgr = ArStart(inp[1], inp[2])
    /\ ring = Idle /\ rcfg = Idle /\ ps = Idle /\ calls = Idle /\ wk = Idle /\ pcfg = Idle
    /\ tst = Idle

MgrSort ==
    /\ mgr.pc = "sort"
    /\ mgr' = MgrSorted(mgr)
    /\ UNCHANGED <<armgr, ring, rcfg, ps, calls, wk, pcfg, tst>>

MgrAssign ==
    /\ mgr.pc = "assign"
    /\ mgr.i < Len(mgr.param_numel)
    /\ mgr' = MgrAssigned(mgr)
    /\ UNCHANGED <<armgr, ring, rcfg, ps, calls, wk, pcfg, tst>>

ArSort ==
    /\ armgr.pc = "sort"
    /\ armgr' = ArSorted(armgr)
    /\ UNCHANGED <<mgr, ring, rcfg, ps, calls, wk, pcfg, tst>>

ArAssign ==
    /\ armgr.pc = "assign"
    /\ armgr.i < Len(armgr.pkey_numel)
    /\ armgr' = ArAssigned(armgr)
    /\ UNCHANGED <<mgr, ring, rcfg, ps, calls, wk, pcfg, tst>>

PartitionNext == MgrSort \/ MgrAssign \/ ArSort \/ ArAssign

SpecPartition == PartitionInit /\ [][PartitionNext]_vars

\* -------------------------------------------------------------- two launches
\* The parameter-server job launched twice (before and after a restart) on
\* the same named parameters and shard count: mgr is the manager of the first
\* launch, armgr of the second. What a launch cannot fix by itself is what
\* its two library calls return, so each is the set of values the call can
\* return.

\* sorted(..., key=lambda x: x[1], reverse=True), line 728: Python guarantees
\* a stable sort, one result.
Sorts(items) == {SortedDesc(items)}

\* np.argmin, line 731: the index of the first occurrence of the minimum.
ArgMinsAnyTie(nums) == {j \in DOMAIN nums : \A k \in DOMAIN nums : nums[j] <= nums[k]}

ArgMins(nums) == {ArgMin(nums)}

\* lines 730-735 with idx what np.argmin returned
MgrPlaced(m, idx) ==
    LET key == m.param_numel[m.i + 1][1]
        numel == m.param_numel[m.i + 1][2]
    IN  [m EXCEPT !.param_ps_idx = @ @@ (key :> idx),
                  !.param_loc_idx = @ @@ (key :> Len(m.ps_param_lists[idx])),
                  !.ps_param_nums[idx] = @ + numel,
                  !.ps_param_lists[idx] = Append(@, key),
                  !.i = @ + 1]

RelaunchInit ==
    /\ \E inp \in PartitionInputs :
          /\ mgr = MgrStart(inp[1], inp[2])
          /\ armgr = MgrStart(inp[1], inp[2])
    /\ ring = Idle /\ rcfg = Idle /\ ps = Idle /\ calls = Idle /\ wk = Idle /\ pcfg = Idle
    /\ tst = Idle

FirstSort ==
    /\ mgr.pc = "sort"
    /\ \E s \in Sorts(mgr.param_numel) : mgr' = [mgr EXCEPT !.pc = "assign", !.param_numel = s]
    /\ UNCHANGED <<armgr, ring, rcfg, ps, calls, wk, pcfg, tst>>

FirstAssign ==
    /\ mgr.pc = "assign"
    /\ mgr.i < Len(mgr.param_numel)
    /\ \E idx \in ArgMins(mgr.ps_param_nums) : mgr' = MgrPlaced(mgr, idx)
    /\ UNCHANGED <<armgr, ring, rcfg, ps, calls, wk, pcfg, tst>>

SecondSort ==
    /\ armgr.pc = "sort"
    /\ \E s \in Sorts(armgr.param_numel) :
          armgr' = [armgr EXCEPT !.pc = "assign", !.param_numel = s]
    /\ UNCHANGED <<mgr, ring, rcfg, ps, calls, wk, pcfg, tst>>

SecondAssign ==
    /\ armgr.pc = "assign"
    /\ armgr.i < Len(armgr.param_numel)
    /\ \E idx \in ArgMins(armgr.ps_param_nums) : armgr' = MgrPlaced(armgr, idx)
    /\ UNCHANGED <<mgr, ring, rcfg, ps, calls, wk, pcfg, tst>>

RelaunchNext == FirstSort \/ FirstAssign \/ SecondSort \/ SecondAssign

SpecRelaunch == RelaunchInit /\ [][RelaunchNext]_vars

\* ------------------------------------------------------ partition: claims
MaxOf(S) == CHOOSE x \in S : \A y \in S : y <= x
MinOf(S) == CHOOSE x \in S : \A y \in S : x <= y

\* keys the loop has assigned so far
MgrAssignedKeys == {mgr.param_numel[j][1] : j \in 1..mgr.i}
ArAssignedKeys == {armgr.pkey_numel[j][1] : j \in 1..armgr.i}

MgrDone == mgr.pc = "assign" /\ mgr.i = Len(mgr.param_numel)
ArDone == armgr.pc = "assign" /\ armgr.i = Len(armgr.pkey_numel)

\* places <<shard, position>> (position 0-based as in the code) holding key k
PlacesOf(lists, k) ==
    {pl \in UNION {{<<p, j - 1>> : j \in 1..Len(lists[p])} : p \in DOMAIN lists} :
        lists[pl[1]][pl[2] + 1] = k}

CoversOnce(lists, keys, shardOf, locOf) ==
    /\ \A k \in keys : PlacesOf(lists, k) = {<<shardOf[k], locOf[k]>>}
    /\ \A p \in DOMAIN lists :
          /\ \A j \in 1..Len(lists[p]) : lists[p][j] \in keys
          /\ {locOf[k] : k \in {x \in keys : shardOf[x] = p}} = 0..(Len(lists[p]) - 1)

\* C8: the partitioning assigns every parameter to exactly one shard and the
\* per-name lookup agrees with the shard lists: the entry at position
\* param_loc_idx[k] of shard param_ps_idx[k] is k, and the positions of each
\* shard are 0..len-1 without gaps or duplicates (both managers; after every
\* assignment for the keys assigned so far, and for all keys at the end).
C8_PartitionCoversOnce ==
    /\ mgr.pc \in {"sort", "assign"} =>
          /\ DOMAIN mgr.param_ps_idx = MgrAssignedKeys
          /\ DOMAIN mgr.param_loc_idx = MgrAssignedKeys
          /\ CoversOnce(mgr.ps_param_lists, MgrAssignedKeys, mgr.param_ps_idx, mgr.param_loc_idx)
          /\ MgrDone => MgrAssignedKeys = 1..Len(mgr.named_parameters)
    /\ armgr.pc \in {"sort", "assign"} =>
          /\ DOMAIN armgr.wrk_pkey_locs = ArAssignedKeys
          /\ CoversOnce(armgr.wrk_pkey_lists, ArAssignedKeys,
                        [k \in ArAssignedKeys |-> armgr.wrk_pkey_locs[k][1]],
                        [k \in ArAssignedKeys |-> armgr.wrk_pkey_locs[k][2]])
          /\ ArDone => ArAssignedKeys = 1..Len(armgr.named_parameters)

\* Both partitionings finished with a shard that holds two parameters and
\* another shard that holds one.
C8_Witness ==
    /\ MgrDone /\ ArDone
    /\ Len(mgr.named_parameters) >= 3
    /\ \E p, q \in DOMAIN mgr.ps_param_lists :
          /\ Len(mgr.ps_param_lists[p]) >= 2 /\ Len(mgr.ps_param_lists[q]) >= 1 /\ p # q
          /\ Len(armgr.wrk_pkey_lists[p]) >= 2 /\ Len(armgr.wrk_pkey_lists[q]) >= 1

Spread(nums) == MaxOf(Range(nums)) - MinOf(Range(nums))
LargestNumel(named) == IF named = <<>> THEN 0 ELSE MaxOf(Range(named))

\* C9: after every assignment the largest and the smallest shard cumulative
\* element count differ by at most the element count of the largest parameter.
C9_ImbalanceBound ==
    /\ mgr.pc = "assign" => Spread(mgr.ps_param_nums) <= LargestNumel(mgr.named_parameters)
    /\ armgr.pc = "assign" => Spread(armgr.wrk_param_nums) <= LargestNumel(armgr.named_parameters)

\* A finished partitioning whose imbalance is exactly the largest parameter,
\* with more parameters than shards.
C9_Witness ==
    /\ MgrDone /\ mgr.ps_num >= 2 /\ Len(mgr.named_parameters) > mgr.ps_num
    /\ Spread(mgr.ps_param_nums) = LargestNumel(mgr.named_parameters)
    /\ Spread(mgr.ps_param_nums) > 1

IsDescending(items) == \A j \in 1..(Len(items) - 1) : items[j][2] >= items[j + 1][2]

LeastLoadedLowest(nums, idx) ==
    /\ \A q \in DOMAIN nums : nums[idx] <= nums[q]
    /\ \A q \in DOMAIN nums : nums[q] = nums[idx] => idx <= q

\* the key newly assigned by a step from m to n
MgrStepGreedy ==
    mgr'.i = mgr.i + 1 =>
        LET key == mgr.param_numel[mgr.i + 1][1]
            idx == mgr'.param_ps_idx[key]
        IN  /\ LeastLoadedLowest(mgr.ps_param_nums, idx)
            /\ mgr'.ps_param_lists[idx] = Append(mgr.ps_param_lists[idx], key)
            /\ mgr'.param_loc_idx[key] = Len(mgr.ps_param_lists[idx])
            /\ mgr'.ps_param_nums[idx] = mgr.ps_param_nums[idx] + mgr.named_parameters[key]
            /\ \A q \in DOMAIN mgr.ps_param_nums \ {idx} :
                  /\ mgr'.ps_param_nums[q] = mgr.ps_param_nums[q]
                  /\ mgr'.ps_param_lists[q] = mgr.ps_param_lists[q]

ArStepGreedy ==
    armgr'.i = armgr.i + 1 =>
        LET key == armgr.pkey_numel[armgr.i + 1][1]
            idx == armgr'.wrk_pkey_locs[key][1]
        IN  /\ LeastLoadedLowest(armgr.wrk_param_nums, idx)
            /\ armgr'.wrk_pkey_lists[idx] = Append(armgr.wrk_pkey_lists[idx], key)
            /\ armgr'.wrk_pkey_locs[key][2] = Len(armgr.wrk_pkey_lists[idx])
            /\ armgr'.wrk_param_nums[idx] = armgr.wrk_param_nums[idx] + armgr.named_parameters[key]
            /\ \A q \in DOMAIN armgr.wrk_param_nums \ {idx} :
                  /\ armgr'.wrk_param_nums[q] = armgr.wrk_param_nums[q]
                  /\ armgr'.wrk_pkey_lists[q] = armgr.wrk_pkey_lists[q]

IsScenario(m, n) == m.named_parameters = Scenario.numels /\ n = Scenario.shards

\* C10: parameters are processed in descending element-count order; each one
\* goes to the shard with the smallest cumulative element count at that
\* moment, the lowest index on ties, appended at the next position; element
\* counts [50,40,30,20,10] on 3 shards end with loads 50, 50, 50.
C10_GreedyOrder ==
    /\ [](/\ mgr.pc = "assign" => IsDescending(mgr.param_numel)
          /\ armgr.pc = "assign" => IsDescending(armgr.pkey_numel)
          /\ (MgrDone /\ IsScenario(mgr, mgr.ps_num)) =>
                mgr.ps_param_nums = (0 :> 50 @@ 1 :> 50 @@ 2 :> 50)
          /\ (ArDone /\ IsScenario(armgr, armgr.wrk_num)) =>
                armgr.wrk_param_nums = (0 :> 50 @@ 1 :> 50 @@ 2 :> 50))
    /\ [][MgrStepGreedy /\ ArStepGreedy]_vars

\* The scenario has run to its end in both managers, shard 1 holding the
\* parameters of 40 and 10 elements and shard 2 those of 30 and 20.
C10_Witness ==
    /\ MgrDone /\ ArDone /\ IsScenario(mgr, mgr.ps_num)
    /\ mgr.ps_param_lists = (0 :> <<1>> @@ 1 :> <<2, 5>> @@ 2 :> <<3, 4>>)
    /\ armgr.wrk_pkey_lists = mgr.ps_param_lists

\* ===================================================================== RING
\* all_reduce/training_sgd_allreduce.py, Worker. Gradient values are kept as
\* bags of contributions <<worker, step, key>>: tensor addition is bag sum, so
\* a slice position shows which workers' gradients it holds and how often.
\* A slice (a Python list of tensors) is an object of its worker's process:
\* grad_lists holds references, aggr_msg_q holds references (queue.put does
\* not copy), and get_gradient_slice serializes the object's content at the
\* moment of the call.
MaxWrk == 4
MaxRingParams == 4
MaxIters == 2

Atom(w, s, k) == SetToBag({<<w, s, k>>})

\* len(self.wrk_pkey_lists[i])
SliceLen(i) == Len(rcfg.wrk_pkey_lists[i])

RingIds == 0..(rcfg.wrk_num - 1)

\* Worker.__init__ (lines 181-217) followed by set_wrk_rrefs_and_tester_rref
\* (lines 229-231): pre_wrk_rref is worker (wrk_id - 1) % wrk_num.
\* batches is what the worker's enumerators yield in all: epoch_num times the
\* length of its own data_loader (line 206).
RingWorkerInit(w, n, batches) ==
    [pc |-> IF batches > 0 THEN "compute" ELSE "done", batches |-> batches,
     wrk_id |-> w, ring_wrk_id |-> w, ring_wrk_num |-> n,
     pre_wrk |-> (w - 1) % n,
     step_num |-> 0, idx |-> 0,
     grad_lists |-> <<>>,       \* None until the first step (line 197)
     heap |-> <<>>,             \* the list objects this process has created
     aggr_msg_q |-> <<>>,       \* queue.Queue(), unbounded (line 209)
     puts |-> <<>>,             \* every deposit made: <<object, step, loop, idx>>
     gets |-> <<>>,             \* every slice obtained: <<object, step, loop, idx>>
     applied |-> <<>>]          \* what optimizer.step() has applied, per step

\* lines 338-342: W fresh lists, filled with the worker's own gradients of
\* this step; list i of the step becomes object Len(heap) + i + 1.
FreshGradLists(r) ==
    [i \in RingIds |->
        [j \in 1..SliceLen(i) |-> Atom(r.wrk_id, r.step_num + 1, rcfg.wrk_pkey_lists[i][j])]]

RingComputedNoExchange(r) ==
    LET n == Len(r.heap)
        fresh == FreshGradLists(r)
    IN  [r EXCEPT !.step_num = @ + 1,
                  !.heap = @ \o [i \in 1..r.ring_wrk_num |-> fresh[i - 1]],
                  !.grad_lists = [i \in RingIds |-> n + i + 1],
                  !.idx = 0,
                  !.pc = "update"]

RingComputedGetFirst(r) ==
    LET n == Len(r.heap)
        fresh == FreshGradLists(r)
    IN  [r EXCEPT !.step_num = @ + 1,
                  !.heap = @ \o [i \in 1..r.ring_wrk_num |-> fresh[i - 1]],
                  !.grad_lists = [i \in RingIds |-> n + i + 1],
                  !.idx = 0,
                  !.pc = IF r.ring_wrk_num - 1 > 0 THEN "rs_get" ELSE "update"]

RingComputedLoopOnce(r) ==
    LET n == Len(r.heap)
        fresh == FreshGradLists(r)
    IN  [r EXCEPT !.step_num = @ + 1,
                  !.heap = @ \o [i \in 1..r.ring_wrk_num |-> fresh[i - 1]],
                  !.grad_lists = [i \in RingIds |-> n + i + 1],
                  !.idx = 0,
                  !.pc = "rs_put"]

RingComputed(r) ==
    LET n == Len(r.heap)
        fresh == FreshGradLists(r)
    IN  [r EXCEPT !.step_num = @ + 1,
                  !.heap = @ \o [i \in 1..r.ring_wrk_num |-> fresh[i - 1]],
                  !.grad_lists = [i \in RingIds |-> n + i + 1],
                  !.idx = 0,
                  !.pc = IF r.ring_wrk_num - 1 > 0 THEN "rs_put" ELSE "update"]

\* lines 347-348 and 357-358
RsSendIdShifted(r) == (r.ring_wrk_id + 1 - r.idx) % r.ring_wrk_num
RsSendId(r) == (r.ring_wrk_id - r.idx) % r.ring_wrk_num
AgSendIdAsReduce(r) == (r.ring_wrk_id - r.idx) % r.ring_wrk_num
AgSendId(r) == (r.ring_wrk_id + 1 - r.idx) % r.ring_wrk_num
RecvId(send_slice_id, r) == (send_slice_id - 1) % r.ring_wrk_num

\* lines 349-350, 359-360: self.aggr_msg_q.put(self.grad_lists[send_slice_id])
\* puts keeps every deposit with the step, loop and iteration it was made in
\* (history, read by no action).
Deposit(r, send_slice_id, nextpc) ==
    <<r.grad_lists[send_slice_id], r.step_num, IF nextpc = "rs_get" THEN "rs" ELSE "ag", r.idx>>

RingPutFront(r, send_slice_id, nextpc) ==
    [r EXCEPT !.aggr_msg_q = <<r.grad_lists[send_slice_id]>> \o @,
              !.puts = Append(@, Deposit(r, send_slice_id, nextpc)),
              !.pc = nextpc]

RingPutAhead(r, send_slice_id, nextpc) ==
    [r EXCEPT !.aggr_msg_q = Append(@, r.grad_lists[send_slice_id]),
              !.puts = Append(@, Deposit(r, send_slice_id, nextpc)),
              !.idx = IF r.idx + 1 < r.ring_wrk_num - 1 THEN @ + 1 ELSE @,
              !.pc = IF r.idx + 1 < r.ring_wrk_num - 1 THEN r.pc ELSE nextpc]

RingPut(r, send_slice_id, nextpc) ==
    [r EXCEPT !.aggr_msg_q = Append(@, r.grad_lists[send_slice_id]),
              !.puts = Append(@, Deposit(r, send_slice_id, nextpc)),
              !.pc = nextpc]

\* lines 353-355: grad_list_to_add[i] += recv_grad_slice[i], in place
AddInto(target, recv) == [i \in 1..Len(target) |-> target[i] (+) recv[i]]

RsReceived(r, recv) ==
    LET obj == r.grad_lists[RecvId(RsSendId(r), r)]
    IN  [r EXCEPT !.heap[obj] = AddInto(@, recv),
                  !.idx = IF r.idx + 1 < r.ring_wrk_num - 1 THEN r.idx + 1 ELSE 0,
                  !.pc = IF r.idx + 1 < r.ring_wrk_num - 1 THEN "rs_put" ELSE "ag_put"]

\* line 363: self.grad_lists[recv_slice_id] = recv_grad_slice (a new object)
AgReceived(r, recv) ==
    [r EXCEPT !.heap = Append(@, recv),
              !.grad_lists[RecvId(AgSendId(r), r)] = Len(r.heap) + 1,
              !.idx = IF r.idx + 1 < r.ring_wrk_num - 1 THEN r.idx + 1 ELSE 0,
              !.pc = IF r.idx + 1 < r.ring_wrk_num - 1 THEN "ag_put" ELSE "update"]

\* lines 365-370: param.grad = grad_lists[loc[0]][loc[1]] for every key, then
\* optimizer.step()
RingUpdated(r) ==
    [r EXCEPT !.applied = Append(@,
                  [k \in DOMAIN rcfg.wrk_pkey_locs |->
                      r.heap[r.grad_lists[rcfg.wrk_pkey_locs[k][1]]][rcfg.wrk_pkey_locs[k][2] + 1]]),
              !.pc = "poll"]

RingJob(n, nparams, iters) ==
    LET m == ArRun(ArStart([k \in 1..nparams |-> k], n))
    IN  [pc |-> "run", wrk_num |-> n, wrk_pkey_lists |-> m.wrk_pkey_lists,
         wrk_pkey_locs |-> m.wrk_pkey_locs, iters |-> iters]

RingInit ==
    /\ \E n \in 1..MaxWrk, nparams \in 0..MaxRingParams, iters \in 1..MaxIters :
          /\ rcfg = RingJob(n, nparams, iters)
          /\ ring = [w \in 0..(n - 1) |-> RingWorkerInit(w, n, iters)]
    /\ mgr = Idle /\ armgr = Idle /\ ps = Idle /\ calls = Idle /\ wk = Idle /\ pcfg = Idle
    /\ tst = TesterInit

\* Tester.get_stop_flag (ps/training_sgd.py 532-536, all_reduce 420-424)
get_stop_flag_false == FALSE

get_stop_flag == tst.stop_flag

RingUnchanged == UNCHANGED <<mgr, armgr, rcfg, ps, calls, wk, pcfg, tst>>

\* lines 297-344: the next batch of the enumerator, backward pass, grad lists
RingCompute(w) ==
    /\ ring[w].pc = "compute"
    /\ ring' = [ring EXCEPT ![w] = RingComputed(@)]
    /\ RingUnchanged

RsPut(w) ==
    /\ ring[w].pc = "rs_put"
    /\ ring' = [ring EXCEPT ![w] = RingPut(@, RsSendId(@), "rs_get")]
    /\ RingUnchanged

\* line 351 with get_gradient_slice (252-258) running on the predecessor: a
\* blocking Queue.get(), whose result is serialized there and added here.
\* gets keeps what was taken with the step, loop and iteration of the taker
\* (history, read by no action).
RsGet(w) ==
    LET p == ring[w].pre_wrk IN
    /\ ring[w].pc = "rs_get"
    /\ ring[p].aggr_msg_q # <<>>
    /\ LET recv == ring[p].heap[Head(ring[p].aggr_msg_q)]
           popped == [ring EXCEPT ![p].aggr_msg_q = Tail(@)]
           taken == <<Head(ring[p].aggr_msg_q), ring[w].step_num, "rs", ring[w].idx>>
       IN  ring' = [popped EXCEPT ![w] = [RsReceived(@, recv) EXCEPT !.gets = Append(@, taken)]]
    /\ RingUnchanged

AgPut(w) ==
    /\ ring[w].pc = "ag_put"
    /\ ring' = [ring EXCEPT ![w] = RingPut(@, AgSendId(@), "ag_get")]
    /\ RingUnchanged

AgGet(w) ==
    LET p == ring[w].pre_wrk IN
    /\ ring[w].pc = "ag_get"
    /\ ring[p].aggr_msg_q # <<>>
    /\ LET recv == ring[p].heap[Head(ring[p].aggr_msg_q)]
           popped == [ring EXCEPT ![p].aggr_msg_q = Tail(@)]
           taken == <<Head(ring[p].aggr_msg_q), ring[w].step_num, "ag", ring[w].idx>>
       IN  ring' = [popped EXCEPT ![w] = [AgReceived(@, recv) EXCEPT !.gets = Append(@, taken)]]
    /\ RingUnchanged

RingUpdate(w) ==
    /\ ring[w].pc = "update"
    /\ ring' = [ring EXCEPT ![w] = RingUpdated(@)]
    /\ RingUnchanged

\* lines 372-378 and the loop heads 286, 297: the worker leaves both loops
\* when get_stop_flag returns True, and goes on while its enumerator has
\* batches otherwise.
RingPoll(w) ==
    /\ ring[w].pc = "poll"
    /\ ring' = [ring EXCEPT ![w].pc = IF get_stop_flag THEN "done"
                                      ELSE IF ring[w].step_num < ring[w].batches THEN "compute"
                                      ELSE "done"]
    /\ RingUnchanged

RingNext ==
    \/ \E w \in DOMAIN ring : RingCompute(w)
    \/ \E w \in DOMAIN ring : RsPut(w)
    \/ \E w \in DOMAIN ring : RsGet(w)
    \/ \E w \in DOMAIN ring : AgPut(w)
    \/ \E w \in DOMAIN ring : AgGet(w)
    \/ \E w \in DOMAIN ring : RingUpdate(w)
    \/ \E w \in DOMAIN ring : RingPoll(w)

SpecRing == RingInit /\ [][RingNext]_vars

\* ------------------------------------- ring: a worker that stops for good
\* main, lines 635-642: with data_partitioned the last worker's data_loader is
\* the remainder of the split and can be shorter than the others'.
MaxStallWrk == 3

RingStallInit ==
    /\ \E n \in 2..MaxStallWrk, iters \in 1..MaxIters, last \in 0..MaxIters :
          /\ last <= iters
          /\ rcfg = RingJob(n, n, iters)
          /\ ring = [w \in 0..(n - 1) |->
                        RingWorkerInit(w, n, IF w = n - 1 THEN last ELSE iters)]
    /\ mgr = Idle /\ armgr = Idle /\ ps = Idle /\ calls = Idle /\ wk = Idle /\ pcfg = Idle
    /\ tst = TesterInit

\* The worker's process dies. One worker at most does: the others are its
\* peers that go on.
RingCrash(w) ==
    /\ ring[w].pc \notin {"done", "crashed"}
    /\ \A v \in DOMAIN ring : ring[v].pc # "crashed"
    /\ ring' = [ring EXCEPT ![w].pc = "crashed"]
    /\ RingUnchanged

\* A get_gradient_slice call is served by the predecessor's process: none is
\* served once that process has died.
RingStep(w) ==
    \/ RingCompute(w)
    \/ RsPut(w)
    \/ RsGet(w) /\ ring[ring[w].pre_wrk].pc # "crashed"
    \/ AgPut(w)
    \/ AgGet(w) /\ ring[ring[w].pre_wrk].pc # "crashed"
    \/ RingUpdate(w)
    \/ RingPoll(w)

RingStallNext ==
    \/ \E w \in DOMAIN ring : RingStep(w)
    \/ \E w \in DOMAIN ring : RingCrash(w)

\* Every worker is a process of its own: one that can take a step does.
SpecRingStall ==
    /\ RingStallInit /\ [][RingStallNext]_vars
    /\ \A w \in 0..(MaxStallWrk - 1) : WF_vars(w \in DOMAIN ring /\ RingStep(w))

\* --------------------------------------------------- nobody stops (ring)
\* Every worker with the same number of batches, no stop flag, nobody
\* crashes; every worker process is scheduled fairly.
MaxLiveWrk == 3

RingLiveInit ==
    /\ \E n \in 1..MaxLiveWrk, iters \in 1..MaxIters : \E nparams \in {0, n} :
          /\ rcfg = RingJob(n, nparams, iters)
          /\ ring = [w \in 0..(n - 1) |-> RingWorkerInit(w, n, iters)]
    /\ mgr = Idle /\ armgr = Idle /\ ps = Idle /\ calls = Idle /\ wk = Idle /\ pcfg = Idle
    /\ tst = TesterInit

SpecRingLive ==
    /\ RingLiveInit /\ [][RingNext]_vars
    /\ \A w \in 0..(MaxLiveWrk - 1) : WF_vars(w \in DOMAIN ring /\ RingStep(w))

\* ----------------------------------------------------------- ring: claims
\* the sum of all workers' gradients of step s for key k, each once
FullSum(s, k) == SetToBag({<<v, s, k>> : v \in RingIds})

\* what worker w holds at slice i, position j (1-based)
Held(w, i, j) == ring[w].heap[ring[w].grad_lists[i]][j]

\* worker w has left both exchange loops of its current step
RingExchanged(w) == ring[w].pc \in {"update", "poll", "done"}

\* the number a bag of contributions stands for when worker v's gradient is
\* v at every position (the scenario's [i,i,i,i])
RECURSIVE SumWorkers(_, _)
SumWorkers(b, atoms) ==
    IF atoms = {} THEN 0
    ELSE LET a == CHOOSE x \in atoms : TRUE
         IN  a[1] * CopiesIn(a, b) + SumWorkers(b, atoms \ {a})

ScenarioValue(b) == SumWorkers(b, BagToSet(b))

\* C1: a worker that has finished the reduce-scatter and the all-gather loop
\* of a step holds, in every slice and position, the sum of all W workers'
\* gradients of that step for that parameter, each worker counted once; so
\* workers that have finished the same step hold identical values, and with
\* 4 workers whose gradients are i at every position every value is 6.
C1_RingAllReduceSum ==
    \A w \in DOMAIN ring : RingExchanged(w) =>
        /\ \A i \in RingIds :
              /\ Len(ring[w].heap[ring[w].grad_lists[i]]) = SliceLen(i)
              /\ \A j \in 1..SliceLen(i) :
                    /\ Held(w, i, j) = FullSum(ring[w].step_num, rcfg.wrk_pkey_lists[i][j])
                    /\ rcfg.wrk_num = 4 => ScenarioValue(Held(w, i, j)) = 6
        /\ \A v \in DOMAIN ring :
              (RingExchanged(v) /\ ring[v].step_num = ring[w].step_num) =>
                  \A i \in RingIds : ring[v].heap[ring[v].grad_lists[i]]
                                        = ring[w].heap[ring[w].grad_lists[i]]

\* 4 workers with one parameter per slice have all finished both loops of
\* their second step.
C1_Witness ==
    /\ rcfg.pc = "run" /\ rcfg.wrk_num = 4
    /\ \A i \in RingIds : SliceLen(i) = 1
    /\ \A w \in DOMAIN ring : ring[w].pc = "update" /\ ring[w].step_num = 2

\* ========================================================= PARAMETER SERVER
\* ps/training_sgd.py: ParameterServer, Worker. Values are bags of gradient
\* contributions <<worker, step, key>>: a gradient is one contribution, an
\* accumulated gradient the bag sum of contributions, and a parameter value
\* the bag sum of every gradient the optimizer has applied to it.
MaxWorkers == 3
MaxPS == 2
MaxPSParams == 3
MaxPSIters == 2
MaxSwitches == 1
MaxContribs == 4

PsIds == 0..(pcfg.ps_num - 1)
WorkerIds == 0..(pcfg.worker_num - 1)
CallIds == WorkerIds \X PsIds

\* param.grad: None, or a tensor
NoGrad == [none |-> TRUE, v |-> EmptyBag]
Grad(b) == [none |-> FALSE, v |-> b]

\* an entry of a worker's grad_lists / param_lists
NoneEntry == [kind |-> "none", v |-> EmptyBag]
GradEntry(b) == [kind |-> "grad", v |-> b]
ParamEntry(b) == [kind |-> "param", v |-> b]

\* ParameterServer.__init__, lines 175-217; ps_params is ps_param_lists[id]
\* (main line 823). futs are the torch.futures.Future objects the shard has
\* created, ps_comp_future the index of the pending one; sync_lock is the set
\* of workers whose call holds the lock (empty or one worker).
PsInit(id, keys) ==
    [ps_id |-> id, ps_keys |-> keys,
     ps_params |-> [j \in 1..Len(keys) |-> EmptyBag],
     grad |-> [j \in 1..Len(keys) |-> NoGrad],
     futs |-> <<[done |-> FALSE, sets |-> 0, by |-> <<>>, at_result |-> <<>>]>>, ps_comp_future |-> 1,
     sync_mode |-> 0, sync_lock |-> {}, sync_worker_count |-> 0,
     step_num |-> 0,
     opt_steps |-> 0,      \* steps the optimizer has taken (its state)
     switches |-> 0]       \* set_sync_mode calls so far

\* Worker.__init__, lines 335-362: grad_lists and param_lists are the same
\* list param_or_grad_lists (main 736-738, 843-844), [None, ...] per shard.
\* batches is what the worker's enumerators yield in all: epoch_num times the
\* length of its own data_loader (line 345).
WkInit(id, lists, batches) ==
    [worker_id |-> id, pc |-> IF batches > 0 THEN "compute" ELSE "done",
     iter_count |-> 0, batches |-> batches,
     lists |-> [q \in DOMAIN lists |-> [j \in 1..Len(lists[q]) |-> NoneEntry]],
     model |-> EmptyMap]   \* state_dict values written by line 478

CallIdle == [pc |-> "idle"]

PsJob(nw, np, nparams, iters) ==
    LET m == MgrRun(MgrStart([k \in 1..nparams |-> k], np))
    IN  [pc |-> "run", worker_num |-> nw, ps_num |-> np,
         param_ps_idx |-> m.param_ps_idx, param_loc_idx |-> m.param_loc_idx,
         ps_param_lists |-> m.ps_param_lists, iters |-> iters]

\* The model has MaxPSParams parameters (optim.SGD / optim.Adam raise on an
\* empty parameter list, so every shard must own one: MaxPSParams >= MaxPS);
\* a job makes at most MaxContribs ps_computing calls in all.
PsSpecInit ==
    /\ \E nw \in 1..MaxWorkers, np \in 1..MaxPS, iters \in 1..MaxPSIters :
          /\ nw * np * iters <= MaxContribs
          /\ pcfg = PsJob(nw, np, MaxPSParams, iters)
          /\ ps = [q \in 0..(np - 1) |-> PsInit(q, pcfg.ps_param_lists[q])]
          /\ wk = [w \in 0..(nw - 1) |-> WkInit(w, pcfg.ps_param_lists, iters)]
          /\ calls = [c \in (0..(nw - 1)) \X (0..(np - 1)) |-> CallIdle]
    /\ mgr = Idle /\ armgr = Idle /\ ring = Idle /\ rcfg = Idle
    /\ tst = TesterInit

\* ------------------------------------------------------------------ worker
\* lines 423-463: next batch, backward pass, then for every key
\* grad_lists[param_ps_idx[key]][param_loc_idx[key]] = param.grad.cpu()
WkComputedHeadOnly(r) ==
    LET it == r.iter_count + 1 IN
    [r EXCEPT !.iter_count = it,
              !.pc = "fanout",
              !.lists = [q \in DOMAIN r.lists |->
                  [j \in 1..Len(r.lists[q]) |->
                      IF j = 1
                      THEN GradEntry(Atom(r.worker_id, it,
                              CHOOSE k \in DOMAIN pcfg.param_ps_idx :
                                  pcfg.param_ps_idx[k] = q /\ pcfg.param_loc_idx[k] = 0))
                      ELSE r.lists[q][j]]]]

WkComputed(r) ==
    LET it == r.iter_count + 1 IN
    [r EXCEPT !.iter_count = it,
              !.pc = "fanout",
              !.lists = [q \in DOMAIN r.lists |->
                  [j \in 1..Len(r.lists[q]) |->
                      IF \E k \in DOMAIN pcfg.param_ps_idx :
                            pcfg.param_ps_idx[k] = q /\ pcfg.param_loc_idx[k] = j - 1
                      THEN GradEntry(Atom(r.worker_id, it,
                              CHOOSE k \in DOMAIN pcfg.param_ps_idx :
                                  pcfg.param_ps_idx[k] = q /\ pcfg.param_loc_idx[k] = j - 1))
                      ELSE r.lists[q][j]]]]

\* lines 467-472: one thread per shard is started
WkCompute(w) ==
    /\ wk[w].pc = "compute"
    /\ wk' = [wk EXCEPT ![w] = WkComputed(@)]
    /\ calls' = [c \in DOMAIN calls |-> IF c[1] = w THEN [pc |-> "start"] ELSE calls[c]]
    /\ UNCHANGED <<mgr, armgr, ring, rcfg, ps, pcfg, tst>>

\* run_ps_computing, lines 376-384: the request carries grad_lists[ps_id] as
\* it is when the thread makes the call.
CallSent(r, q) == [pc |-> "sent", gradients |-> [j \in 1..Len(r.lists[q]) |-> r.lists[q][j]]]

CallSend(w, q) ==
    /\ calls[<<w, q>>].pc = "start"
    /\ calls' = [calls EXCEPT ![<<w, q>>] = CallSent(wk[w], q)]
    /\ UNCHANGED <<mgr, armgr, ring, rcfg, ps, wk, pcfg, tst>>

\* ------------------------------------------------------------ ps_computing
\* lines 276-280: zip(self.ps_params, gradients)
Accumulated(grad, gradients) ==
    [j \in 1..Len(grad) |->
        IF j > Len(gradients) THEN grad[j]
        ELSE IF grad[j].none THEN Grad(gradients[j].v)
        ELSE Grad(grad[j].v (+) gradients[j].v)]

\* lines 274-281
PsAccumulated(shard, gradients) ==
    [shard EXCEPT !.step_num = @ + 1,
                  !.grad = Accumulated(@, gradients),
                  !.sync_worker_count = @ + 1]

\* lines 252-283: with self.sync_lock; sync_mode = int(self.sync_mode);
\* step_num, accumulation, counter; ft = self.ps_comp_future. at_entry keeps
\* what the shard's counters and pending future were when the call took the
\* lock (history, read by no action).
CallAccumulated(c, shard) ==
    [pc |-> "test", sync_mode |-> shard.sync_mode, ft |-> shard.ps_comp_future,
     at_entry |-> [step_num |-> shard.step_num, opt_steps |-> shard.opt_steps,
                   ps_comp_future |-> shard.ps_comp_future]]

\* line 252: with self.sync_lock blocks while another call holds the lock
LockIgnored(shard) == TRUE

LockFree(shard) == shard.sync_lock = {}

PsAccumulate(w, q) ==
    /\ calls[<<w, q>>].pc = "sent"
    /\ LockFree(ps[q])
    /\ ps' = [ps EXCEPT ![q] = [PsAccumulated(@, calls[<<w, q>>].gradients)
                                    EXCEPT !.sync_lock = {w},
                                           !.futs[ps[q].ps_comp_future].by = Append(@, w)]]
    /\ calls' = [calls EXCEPT ![<<w, q>>] = CallAccumulated(@, ps[q])]
    /\ UNCHANGED <<mgr, armgr, ring, rcfg, wk, pcfg, tst>>

\* line 285
TriggerLive(sync_mode, shard) ==
    shard.sync_mode = 1 \/ shard.sync_worker_count >= pcfg.worker_num

TriggerStrict(sync_mode, shard) ==
    sync_mode = 1 \/ shard.sync_worker_count > pcfg.worker_num

TriggerPresent(sync_mode, shard) ==
    sync_mode = 1 \/ shard.sync_worker_count >=
                        Cardinality({w \in WorkerIds : wk[w].pc \notin {"done", "crashed"}})

TriggerCountOnly(sync_mode, shard) ==
    shard.sync_worker_count >= pcfg.worker_num

Trigger(sync_mode, shard) ==
    sync_mode = 1 \/ shard.sync_worker_count >= pcfg.worker_num

\* line 293: optimizer.step() skips a parameter whose grad is None
OptimizerStep(shard) ==
    [shard EXCEPT !.ps_params = [j \in 1..Len(@) |->
                        IF shard.grad[j].none THEN @[j] ELSE @[j] (+) shard.grad[j].v],
                  !.opt_steps = @ + 1]

\* lines 293-297
PsSteppedKeepGrad(shard) ==
    [OptimizerStep(shard) EXCEPT !.sync_worker_count = 0]

PsSteppedKeepCount(shard) ==
    [OptimizerStep(shard) EXCEPT !.grad = [j \in 1..Len(@) |-> NoGrad]]

PsStepped(shard) ==
    [OptimizerStep(shard) EXCEPT !.grad = [j \in 1..Len(@) |-> NoGrad],
                                 !.sync_worker_count = 0]

\* lines 310-311: ft.set_result((self.ps_params, time.time())) and a new
\* pending future. The result holds the shard's parameter list itself, not a
\* copy of its values; at_result keeps the values the list had at set_result
\* and by the workers whose calls took the future at line 283, sets counts
\* the set_result calls made on the future (history, read by no action).
PsResolvedSamePending(shard, ft) ==
    [shard EXCEPT !.futs = [@ EXCEPT ![ft].done = TRUE,
                                     ![ft].sets = @ + 1,
                                     ![ft].at_result = shard.ps_params]]

PsResolved(shard, ft) ==
    [shard EXCEPT !.futs = Append([@ EXCEPT ![ft].done = TRUE,
                                              ![ft].sets = @ + 1,
                                              ![ft].at_result = shard.ps_params],
                                  [done |-> FALSE, sets |-> 0, by |-> <<>>, at_result |-> <<>>]),
                  !.ps_comp_future = Len(shard.futs) + 1]

\* lines 285-311 with the condition of line 285 true; the lock is still held
PsStep(w, q) ==
    /\ calls[<<w, q>>].pc = "test"
    /\ Trigger(calls[<<w, q>>].sync_mode, ps[q])
    /\ ps' = [ps EXCEPT ![q] = PsResolved(PsStepped(@), calls[<<w, q>>].ft)]
    /\ calls' = [calls EXCEPT ![<<w, q>>].pc = "ret"]
    /\ UNCHANGED <<mgr, armgr, ring, rcfg, wk, pcfg, tst>>

\* line 313: return ft (the with block has released the lock)
ReturnedPending(c, shard) == shard.ps_comp_future

Returned(c, shard) == c.ft

\* line 285 false, then line 313
PsNoStep(w, q) ==
    /\ calls[<<w, q>>].pc = "test"
    /\ ~Trigger(calls[<<w, q>>].sync_mode, ps[q])
    /\ ps' = [ps EXCEPT ![q].sync_lock = {}]
    /\ calls' = [calls EXCEPT ![<<w, q>>] = [pc |-> "await", ft |-> Returned(@, ps[q])]]
    /\ UNCHANGED <<mgr, armgr, ring, rcfg, wk, pcfg, tst>>

\* line 313 after a step
PsReturn(w, q) ==
    /\ calls[<<w, q>>].pc = "ret"
    /\ ps' = [ps EXCEPT ![q].sync_lock = {}]
    /\ calls' = [calls EXCEPT ![<<w, q>>] = [pc |-> "await", ft |-> Returned(@, ps[q])]]
    /\ UNCHANGED <<mgr, armgr, ring, rcfg, wk, pcfg, tst>>

\* The reply of an async_execution call is sent once the returned future is
\* done. Its payload is the future's result, the live ps_params list, which
\* the RPC layer serializes at some moment after set_result: the values are
\* the shard's parameter values of that moment. Then line 387:
\* self.param_lists[ps_id] = ps_params.
Delivered(shard) == [j \in 1..Len(shard.ps_params) |-> ParamEntry(shard.ps_params[j])]

CallReceive(w, q) ==
    /\ wk[w].pc = "fanout"
    /\ calls[<<w, q>>].pc = "await"
    /\ ps[q].futs[calls[<<w, q>>].ft].done
    /\ calls' = [calls EXCEPT ![<<w, q>>] = [pc |-> "done", ft |-> @.ft]]
    /\ wk' = [wk EXCEPT ![w].lists[q] = Delivered(ps[q])]
    /\ UNCHANGED <<mgr, armgr, ring, rcfg, ps, pcfg, tst>>

\* lines 473-478: join every thread, then copy every parameter into the model
WkJoinedNextSlot(r) ==
    [r EXCEPT !.pc = "poll",
              !.model = [k \in DOMAIN pcfg.param_ps_idx |->
                            LET l == r.lists[pcfg.param_ps_idx[k]]
                            IN  l[((pcfg.param_loc_idx[k] + 1) % Len(l)) + 1]]]

WkJoined(r) ==
    [r EXCEPT !.pc = "poll",
              !.model = [k \in DOMAIN pcfg.param_ps_idx |->
                            r.lists[pcfg.param_ps_idx[k]][pcfg.param_loc_idx[k] + 1]]]

\* lines 473-474: thrd.join() for every thread
AnyReplied(w) == \E q \in PsIds : calls[<<w, q>>].pc = "done"

AllReplied(w) == \A q \in PsIds : calls[<<w, q>>].pc = "done"

WkJoin(w) ==
    /\ wk[w].pc = "fanout"
    /\ AllReplied(w)
    /\ wk' = [wk EXCEPT ![w] = WkJoined(@)]
    /\ calls' = [c \in DOMAIN calls |-> IF c[1] = w THEN CallIdle ELSE calls[c]]
    /\ UNCHANGED <<mgr, armgr, ring, rcfg, ps, pcfg, tst>>

\* lines 484-490 and the loop heads 412, 423: as in the ring worker
WkPoll(w) ==
    /\ wk[w].pc = "poll"
    /\ wk' = [wk EXCEPT ![w].pc = IF get_stop_flag THEN "done"
                                  ELSE IF wk[w].iter_count < wk[w].batches THEN "compute"
                                  ELSE "done"]
    /\ UNCHANGED <<mgr, armgr, ring, rcfg, ps, calls, pcfg, tst>>

\* set_sync_mode, lines 227-231: takes no lock. Nothing in the repository
\* calls it; a shard is told to change its mode at most MaxSwitches times.
SetSyncMode(q, m) ==
    /\ ps[q].sync_mode # m
    /\ ps[q].switches < MaxSwitches
    /\ ps' = [ps EXCEPT ![q].sync_mode = m, ![q].switches = @ + 1]
    /\ UNCHANGED <<mgr, armgr, ring, rcfg, calls, wk, pcfg, tst>>

PsNext ==
    \/ \E w \in DOMAIN wk : WkCompute(w)
    \/ \E c \in DOMAIN calls : CallSend(c[1], c[2])
    \/ \E c \in DOMAIN calls : PsAccumulate(c[1], c[2])
    \/ \E c \in DOMAIN calls : PsStep(c[1], c[2])
    \/ \E c \in DOMAIN calls : PsNoStep(c[1], c[2])
    \/ \E c \in DOMAIN calls : PsReturn(c[1], c[2])
    \/ \E c \in DOMAIN calls : CallReceive(c[1], c[2])
    \/ \E w \in DOMAIN wk : WkJoin(w)
    \/ \E w \in DOMAIN wk : WkPoll(w)
    \/ \E q \in DOMAIN ps, m \in {0, 1} : SetSyncMode(q, m)

SpecPS == PsSpecInit /\ [][PsNext]_vars

\* ------------------------------------------- a worker that stops for good
\* main, lines 754-760 and 778-785: with data_partitioned the first
\* worker_num - 1 workers get int((n + worker_num) / worker_num) samples each
\* and the last worker the rest, so the last data_loader can be shorter.
\* The mode is the constructor's 0 throughout (nothing calls set_sync_mode).
StallInit ==
    /\ \E nw \in 2..MaxWorkers, np \in 1..MaxPS, iters \in 1..MaxPSIters, last \in 0..MaxPSIters :
          /\ nw * np * iters <= MaxContribs
          /\ last <= iters
          /\ pcfg = PsJob(nw, np, MaxPSParams, iters)
          /\ ps = [q \in 0..(np - 1) |-> PsInit(q, pcfg.ps_param_lists[q])]
          /\ wk = [w \in 0..(nw - 1) |->
                      WkInit(w, pcfg.ps_param_lists, IF w = nw - 1 THEN last ELSE iters)]
          /\ calls = [c \in (0..(nw - 1)) \X (0..(np - 1)) |-> CallIdle]
    /\ mgr = Idle /\ armgr = Idle /\ ring = Idle /\ rcfg = Idle
    /\ tst = TesterInit

\* The worker's process dies: its threads make no further call and take no
\* reply; a request that is already on its way is still served by the shard.
WkCrash(w) ==
    /\ wk[w].pc \notin {"done", "crashed"}
    /\ wk' = [wk EXCEPT ![w].pc = "crashed"]
    /\ calls' = [c \in DOMAIN calls |->
                    IF c[1] = w /\ calls[c].pc = "start" THEN CallIdle ELSE calls[c]]
    /\ UNCHANGED <<mgr, armgr, ring, rcfg, ps, pcfg, tst>>

StallNext ==
    \/ \E w \in DOMAIN wk : WkCompute(w)
    \/ \E c \in DOMAIN calls : CallSend(c[1], c[2])
    \/ \E c \in DOMAIN calls : PsAccumulate(c[1], c[2])
    \/ \E c \in DOMAIN calls : PsStep(c[1], c[2])
    \/ \E c \in DOMAIN calls : PsNoStep(c[1], c[2])
    \/ \E c \in DOMAIN calls : PsReturn(c[1], c[2])
    \/ \E c \in DOMAIN calls : CallReceive(c[1], c[2])
    \/ \E w \in DOMAIN wk : WkJoin(w)
    \/ \E w \in DOMAIN wk : WkPoll(w)
    \/ \E w \in DOMAIN wk : WkCrash(w)

SpecStall == StallInit /\ [][StallNext]_vars

\* ------------------------------------------------------------------ tester
\* Tester.test_model, ps/training_sgd.py lines 566-641, and the two methods of
\* ParameterServer it calls. The mode is the constructor's 0 throughout.
MaxFetches == 1

\* lines 572-575: one rpc_async get_ps_params per shard
TesterFetch ==
    /\ tst.pc = "wait"
    /\ tst.fetches < MaxFetches
    /\ tst' = [tst EXCEPT !.pc = "fetch", !.fetches = @ + 1,
                          !.reqs = [q \in PsIds |-> "sent"],
                          !.params = [q \in PsIds |-> <<>>]]
    /\ UNCHANGED <<mgr, armgr, ring, rcfg, ps, calls, wk, pcfg>>

\* get_ps_params, lines 239-243, begins on shard q: no lock is taken
GetPsParamsLocked(shard) == [shard EXCEPT !.sync_lock = {pcfg.worker_num}]

GetPsParamsEntered(shard) == shard

GetPsParamsCall(q) ==
    /\ tst.pc = "fetch" /\ tst.reqs[q] = "sent"
    /\ tst' = [tst EXCEPT !.reqs[q] = "running"]
    /\ ps' = [ps EXCEPT ![q] = GetPsParamsEntered(@)]
    /\ UNCHANGED <<mgr, armgr, ring, rcfg, calls, wk, pcfg>>

\* line 243: return self.ps_params, the live list; the reply carries the
\* values it has when it is written out
GetPsParamsStale(shard) == [j \in 1..Len(shard.ps_params) |-> EmptyBag]

GetPsParamsReturned(shard) == shard.ps_params

GetPsParamsReply(q) ==
    /\ tst.pc = "fetch" /\ tst.reqs[q] = "running"
    /\ tst' = [tst EXCEPT !.reqs[q] = "replied", !.params[q] = GetPsParamsReturned(ps[q])]
    /\ UNCHANGED <<mgr, armgr, ring, rcfg, ps, calls, wk, pcfg>>

\* lines 576-583: future.wait() for every shard, then the copy into the model
TesterCopy ==
    /\ tst.pc = "fetch"
    /\ \A q \in PsIds : tst.reqs[q] = "replied"
    /\ tst' = [tst EXCEPT !.pc = "step"]
    /\ UNCHANGED <<mgr, armgr, ring, rcfg, ps, calls, wk, pcfg>>

\* line 641 with get_step_num, lines 233-237: no lock is taken
TesterGetStepNum ==
    /\ tst.pc = "step"
    /\ tst' = [tst EXCEPT !.pc = "wait", !.step_num = ps[0].step_num]
    /\ UNCHANGED <<mgr, armgr, ring, rcfg, ps, calls, wk, pcfg>>

\* the steps of the workers and of ps_computing
TrainStep ==
    \/ \E w \in DOMAIN wk : WkCompute(w)
    \/ \E c \in DOMAIN calls : CallSend(c[1], c[2])
    \/ \E c \in DOMAIN calls : PsAccumulate(c[1], c[2])
    \/ \E c \in DOMAIN calls : PsStep(c[1], c[2])
    \/ \E c \in DOMAIN calls : PsNoStep(c[1], c[2])
    \/ \E c \in DOMAIN calls : PsReturn(c[1], c[2])
    \/ \E c \in DOMAIN calls : CallReceive(c[1], c[2])
    \/ \E w \in DOMAIN wk : WkJoin(w)
    \/ \E w \in DOMAIN wk : WkPoll(w)

TesterNext ==
    \/ TrainStep
    \/ TesterFetch
    \/ \E q \in DOMAIN ps : GetPsParamsCall(q)
    \/ \E q \in DOMAIN ps : GetPsParamsReply(q)
    \/ TesterCopy
    \/ TesterGetStepNum

\* The workers and the shards are processes of their own and go on when they
\* can; nothing is assumed of the tester, which may stop inside a fetch.
SpecTester == PsSpecInit /\ [][TesterNext]_vars /\ WF_vars(TrainStep)

\* ------------------------------------------------------ nobody stops (ps)
\* Wait-for-all mode, never changed, every worker with the same number of
\* batches, no stop flag. A worker's main thread and each of its per-shard
\* call threads is scheduled fairly; the shard serves a call that can go on.
WorkerThread(w) == WkCompute(w) \/ WkJoin(w) \/ WkPoll(w)

CallThread(w, q) ==
    \/ CallSend(w, q) \/ PsAccumulate(w, q) \/ PsStep(w, q)
    \/ PsNoStep(w, q) \/ PsReturn(w, q) \/ CallReceive(w, q)

SpecPSLive ==
    /\ PsSpecInit /\ [][TrainStep]_vars
    /\ \A w \in 0..(MaxWorkers - 1) : WF_vars(w \in DOMAIN wk /\ WorkerThread(w))
    /\ \A w \in 0..(MaxWorkers - 1) : \A q \in 0..(MaxPS - 1) :
          WF_vars(<<w, q>> \in DOMAIN calls /\ CallThread(w, q))

\* --------------------------------------------------------------- stop flag
\* The workers of either program with a tester whose stop_flag becomes True.
\* Nothing in the repository assigns True (the test that would is commented
\* out at lines 656-658 of ps/training_sgd.py); here the flag is raised from
\* outside at any moment, once.
StopInit == PsSpecInit \/ RingStallInit

TesterStop ==
    /\ tst.pc = "wait" /\ ~tst.stop_flag
    /\ tst' = [tst EXCEPT !.stop_flag = TRUE]
    /\ UNCHANGED <<mgr, armgr, ring, rcfg, ps, calls, wk, pcfg>>

StopNext ==
    \/ pcfg.pc = "run" /\ TrainStep
    \/ rcfg.pc = "run" /\ \E w \in DOMAIN ring : RingStep(w)
    \/ TesterStop

SpecStop == StopInit /\ [][StopNext]_vars

\* --------------------------------------------------------------- bootstrap
\* The manager branch of main in both programs: it creates the participants
\* with rpc.remote, hands every shard and worker its references with
\* rpc_sync, then starts run_worker and test_model with rpc_async.
Shard(q) == <<"ps", q>>
Wrk(w) == <<"worker", w>>
TesterId == <<"tester", 0>>

Participants(np, nw) == {Shard(q) : q \in 0..(np - 1)} \cup {Wrk(w) : w \in 0..(nw - 1)} \cup {TesterId}

Stmts(op, kind, n) == [i \in 1..n |-> [op |-> op, to |-> <<kind, i - 1>>]]

\* ps/training_sgd.py lines 808-881, statement by statement
PsMain(np, nw) ==
    Stmts("remote", "ps", np) \o Stmts("remote", "worker", nw) \o Stmts("remote", "tester", 1)
    \o Stmts("set", "ps", np) \o Stmts("set", "worker", nw)
    \o Stmts("run", "worker", nw) \o Stmts("run", "tester", 1)

\* all_reduce/training_sgd_allreduce.py lines 691-737
ArMain(n) ==
    Stmts("remote", "worker", n) \o Stmts("remote", "tester", 1)
    \o Stmts("set", "worker", n)
    \o Stmts("run", "worker", n) \o Stmts("run", "tester", 1)

\* The outcome of a constructor at its owner. The parameter-server main
\* passes Tester fifteen arguments (lines 853-869) and Tester.__init__ takes
\* twelve (lines 494-509): TypeError, the object never exists. Every other
\* call matches its constructor.
Constructed(mode, p) == IF mode = "ps" /\ p = TesterId THEN "failed" ELSE "created"

\* Whether the method the manager calls on a shard or worker exists. The
\* ring main calls set_ps_worker_rrefs_and_tester_rref (line 732); the ring
\* Worker only has set_wrk_rrefs_and_tester_rref (line 225): AttributeError.
HasSetter(mode) == mode = "ps"

\* pc is the statement the manager is at, 0 once an exception has ended it.
BootStart(mode, np, nw) ==
    [pc |-> 1, mode |-> mode,
     main |-> IF mode = "ps" THEN PsMain(np, nw) ELSE ArMain(nw),
     obj |-> [p \in Participants(np, nw) |-> "none"],
     set_ok |-> {},
     futures |-> {}]

BootInit ==
    \/ /\ \E nw \in 1..MaxWorkers, np \in 1..MaxPS :
             /\ nw * np <= MaxContribs
             /\ pcfg = PsJob(nw, np, MaxPSParams, 1)
             /\ ps = [q \in 0..(np - 1) |-> PsInit(q, pcfg.ps_param_lists[q])]
             /\ wk = [w \in 0..(nw - 1) |-> WkInit(w, pcfg.ps_param_lists, 1)]
             /\ calls = [c \in (0..(nw - 1)) \X (0..(np - 1)) |-> CallIdle]
             /\ mgr = BootStart("ps", np, nw)
       /\ armgr = Idle /\ ring = Idle /\ rcfg = Idle /\ tst = TesterInit
    \/ /\ \E n \in 1..MaxStallWrk :
             /\ rcfg = RingJob(n, n, 1)
             /\ ring = [w \in 0..(n - 1) |-> RingWorkerInit(w, n, 1)]
             /\ mgr = BootStart("ring", 0, n)
       /\ armgr = Idle /\ ps = Idle /\ calls = Idle /\ wk = Idle /\ pcfg = Idle
       /\ tst = TesterInit

BootAt(op) == mgr.pc \in 1..Len(mgr.main) /\ mgr.main[mgr.pc].op = op

BootUnchanged == UNCHANGED <<armgr, ring, rcfg, ps, calls, wk, pcfg, tst>>

\* rpc.remote returns the reference at once; the constructor runs at the
\* owner later.
BootRemote ==
    /\ BootAt("remote")
    /\ mgr' = [mgr EXCEPT !.obj[mgr.main[mgr.pc].to] = "pending", !.pc = @ + 1]
    /\ BootUnchanged

BootConstruct(p) ==
    /\ mgr.obj[p] = "pending"
    /\ mgr' = [mgr EXCEPT !.obj[p] = Constructed(mgr.mode, p)]
    /\ BootUnchanged

\* rref.rpc_sync().set_...(...): runs at the owner once the object is there
\* and blocks the manager until it returns or raises. Nothing here waits
\* for the tester, whose reference is only passed along.
BootSet ==
    /\ BootAt("set")
    /\ LET to == mgr.main[mgr.pc].to IN
          /\ mgr.obj[to] # "pending"
          /\ mgr' = IF mgr.obj[to] = "created" /\ HasSetter(mgr.mode)
                    THEN [mgr EXCEPT !.set_ok = @ \cup {to}, !.pc = @ + 1]
                    ELSE [mgr EXCEPT !.pc = 0]
    /\ BootUnchanged

\* rpc.rpc_async(to=..., func=Worker.run_worker / Tester.test_model, ...)
BootRun ==
    /\ BootAt("run")
    /\ mgr' = [mgr EXCEPT !.futures = @ \cup {mgr.main[mgr.pc].to}, !.pc = @ + 1]
    /\ BootUnchanged

\* The stop-flag poll of a started worker is an rpc_sync on the tester's
\* reference: it raises, and ends run_worker, when the tester was never made.
BootPoll(w) ==
    /\ mgr.obj[TesterId] \in {"created", "failed"}
    /\ IF mgr.obj[TesterId] = "created"
       THEN IF mgr.mode = "ps" THEN WkPoll(w) ELSE RingPoll(w)
       ELSE /\ mgr.mode = "ps" /\ wk[w].pc = "poll" /\ WkCrash(w)

\* run_worker of a worker the manager has started
BootWorker(w) ==
    /\ Wrk(w) \in mgr.futures
    /\ IF mgr.mode = "ps"
       THEN \/ WkCompute(w)
            \/ \E q \in DOMAIN ps :
                  \/ CallSend(w, q) \/ PsAccumulate(w, q) \/ PsStep(w, q)
                  \/ PsNoStep(w, q) \/ PsReturn(w, q) \/ CallReceive(w, q)
            \/ WkJoin(w)
            \/ BootPoll(w)
       ELSE \/ RingCompute(w) \/ RsPut(w) \/ RsGet(w) \/ AgPut(w) \/ AgGet(w)
            \/ RingUpdate(w)
            \/ BootPoll(w)

BootNext ==
    \/ BootRemote
    \/ \E p \in DOMAIN mgr.obj : BootConstruct(p)
    \/ BootSet
    \/ BootRun
    \/ \E p \in mgr.futures : BootWorker(p[2])

SpecBoot == BootInit /\ [][BootNext]_vars


\* ----------------------------------------------- parameter server: claims
\* the workers whose calls contributed to future f of shard q, in order
Contributors(q, f) == ps[q].futs[f].by

\* C2: wait-for-all mode (sync_mode read as 0): a call resolves the future
\* only as the worker_num-th contribution since the previous resolution, and
\* a future that worker_num-1 or fewer calls have contributed to stays
\* unresolved; the worker_num-th contribution does not leave the critical
\* section without resolving it.
C2_WaitForAllRound ==
    \A q \in PsIds : \A w \in WorkerIds :
        LET c == calls[<<w, q>>] IN
        /\ (c.pc = "ret" /\ c.sync_mode = 0) =>
              /\ ps[q].futs[c.ft].done
              /\ Len(Contributors(q, c.ft)) = pcfg.worker_num
        /\ (c.pc = "test" /\ c.sync_mode = 0) =>
              /\ ~ps[q].futs[c.ft].done
              /\ Len(Contributors(q, c.ft)) <= pcfg.worker_num
        /\ (c.pc = "await" /\ ~ps[q].futs[c.ft].done) =>
              \/ Len(Contributors(q, c.ft)) < pcfg.worker_num
              \/ \E v \in ps[q].sync_lock :
                    calls[<<v, q>>].pc = "test" /\ calls[<<v, q>>].ft = c.ft

\* 3 workers, mode never changed: the third contribution has just resolved
\* the future the other two are waiting for.
C2_Witness ==
    /\ pcfg.pc = "run" /\ pcfg.worker_num = 3
    /\ \E q \in PsIds :
          /\ ps[q].switches = 0
          /\ calls[<<2, q>>].pc = "ret" /\ calls[<<2, q>>].sync_mode = 0
          /\ calls[<<0, q>>].pc = "await" /\ calls[<<1, q>>].pc = "await"
          /\ calls[<<0, q>>].ft = calls[<<2, q>>].ft
          /\ calls[<<1, q>>].ft = calls[<<2, q>>].ft

\* C3 (as claimed): what a contributor receives through its future are the
\* shard's parameter values right after the optimizer step that closed its
\* own round (the values at set_result), so all contributors of a round
\* receive the same values.
C3_DeliveredPostStep ==
    \A q \in PsIds : \A w \in WorkerIds :
        calls[<<w, q>>].pc = "done" =>
            wk[w].lists[q] = [j \in 1..Len(ps[q].ps_params) |->
                                 ParamEntry(ps[q].futs[calls[<<w, q>>].ft].at_result[j])]

\* C4: ps_computing returns the future that was pending when the call took
\* the lock: a call that steps returns the future it has resolved, never the
\* fresh one; a call that does not step returns the pending one.
C4_ReturnsEntryFuture ==
    /\ [](\A q \in PsIds : \A w \in WorkerIds :
            LET c == calls[<<w, q>>] IN
            /\ c.pc \in {"test", "ret"} => c.ft = c.at_entry.ps_comp_future
            /\ c.pc = "ret" => ps[q].futs[c.ft].done /\ c.ft # ps[q].ps_comp_future)
    /\ [][\A c \in DOMAIN calls :
            (calls[c].pc \in {"test", "ret"} /\ calls'[c].pc = "await") =>
                /\ calls'[c].ft = calls[c].at_entry.ps_comp_future
                /\ calls[c].pc = "ret" => calls'[c].ft # ps'[c[2]].ps_comp_future
                /\ calls[c].pc = "test" => calls'[c].ft = ps'[c[2]].ps_comp_future]_vars

\* A call that stepped has returned its resolved future while another worker
\* already holds the fresh one.
C4_Witness ==
    /\ pcfg.pc = "run"
    /\ \E q \in PsIds : \E w, v \in WorkerIds :
          /\ calls[<<w, q>>].pc = "await" /\ ps[q].futs[calls[<<w, q>>].ft].done
          /\ calls[<<v, q>>].pc = "await" /\ calls[<<v, q>>].ft = ps[q].ps_comp_future
          /\ calls[<<v, q>>].ft = calls[<<w, q>>].ft + 1

\* C5 (as claimed): step_num counts the completed rounds: whenever no call is
\* inside the critical section it equals the number of optimizer steps.
C5_StepNumCountsRounds ==
    \A q \in PsIds : ps[q].sync_lock = {} => ps[q].step_num = ps[q].opt_steps

\* C6: a call that read sync_mode 1 takes exactly one optimizer step and one
\* step_num increment and resolves its own future before it returns, however
\* many contributions are pending.
C6_AsyncStepsEveryCall ==
    /\ [](\A q \in PsIds : \A w \in WorkerIds :
            LET c == calls[<<w, q>>] IN
            (c.pc = "ret" /\ c.sync_mode = 1) =>
                /\ ps[q].opt_steps = c.at_entry.opt_steps + 1
                /\ ps[q].step_num = c.at_entry.step_num + 1
                /\ ps[q].futs[c.ft].done)
    /\ [][\A c \in DOMAIN calls :
            (calls[c].pc = "test" /\ calls[c].sync_mode = 1 /\ calls'[c].pc # "test") =>
                calls'[c].pc = "ret"]_vars
    /\ [][\A c \in DOMAIN calls :
            (calls[c].pc = "ret" /\ calls[c].sync_mode = 1 /\ calls'[c].pc # "ret") =>
                /\ calls'[c].pc = "await"
                /\ ps'[c[2]].opt_steps = calls[c].at_entry.opt_steps + 1
                /\ ps'[c[2]].step_num = calls[c].at_entry.step_num + 1]_vars

\* With 3 workers, a call in step-per-contribution mode has stepped alone.
C6_Witness ==
    /\ pcfg.pc = "run" /\ pcfg.worker_num = 3
    /\ \E q \in PsIds : \E w \in WorkerIds :
          /\ calls[<<w, q>>].pc = "ret" /\ calls[<<w, q>>].sync_mode = 1
          /\ Contributors(q, calls[<<w, q>>].ft) = <<w>>

\* C7: right after a completed round, before the lock is released, every
\* accumulated gradient is None, sync_worker_count is 0 and ps_comp_future is
\* a new unresolved future, not the one just resolved.
C7_ResetAfterRound ==
    \A q \in PsIds : \A w \in WorkerIds :
        calls[<<w, q>>].pc = "ret" =>
            /\ \A j \in 1..Len(ps[q].grad) : ps[q].grad[j].none
            /\ ps[q].sync_worker_count = 0
            /\ ps[q].futs[calls[<<w, q>>].ft].done
            /\ ps[q].ps_comp_future # calls[<<w, q>>].ft
            /\ ps[q].ps_comp_future = Len(ps[q].futs)
            /\ ~ps[q].futs[ps[q].ps_comp_future].done

\* The second wait-for-all round of a shard with 2 workers has just completed.
C7_Witness ==
    /\ pcfg.pc = "run" /\ pcfg.worker_num = 2
    /\ \E q \in PsIds : \E w \in WorkerIds :
          /\ calls[<<w, q>>].pc = "ret" /\ calls[<<w, q>>].sync_mode = 0
          /\ ps[q].switches = 0 /\ ps[q].opt_steps = 2 /\ Len(ps[q].futs) = 3

\* the positions <<future, place>> of the contributions to futures 1..f
ContribPlaces(q, f) ==
    {p \in (1..f) \X (1..(pcfg.worker_num * pcfg.iters)) : p[2] <= Len(ps[q].futs[p[1]].by)}

\* the contributions worker w has made to the futures 1..f of shard q
NumBy(q, w, f) ==
    Cardinality({p \in ContribPlaces(q, f) : ps[q].futs[p[1]].by[p[2]] = w})

\* every contribution to the futures 1..f of shard q, for key k, each once:
\* worker w's n-th call carries its gradient of step n
ContribBag(q, f, k) ==
    SetToBag({a \in WorkerIds \X (1..pcfg.iters) \X {k} : a[2] <= NumBy(q, a[1], f)})

\* the number of ps_computing calls shard q has accumulated
NumContribs(q) == Cardinality(ContribPlaces(q, Len(ps[q].futs)))

\* the calls of shard q that are between lines 252 and 313
InCritical(q) == {w \in WorkerIds : calls[<<w, q>>].pc \in {"test", "ret"}}

\* C11: at most one call of a shard is inside the critical section; no
\* contribution is lost or counted twice: what the optimizer has applied plus
\* what is accumulated is every contribution once, each resolved future's
\* round holds exactly its own contributors' gradients on top of the earlier
\* rounds, and with the lock free in wait-for-all mode the shard has taken
\* k \div W steps and sync_worker_count is k % W after k contributions.
C11_CriticalSection ==
    \A q \in PsIds :
        /\ Cardinality(InCritical(q)) <= 1
        /\ InCritical(q) = ps[q].sync_lock
        /\ \A j \in 1..Len(ps[q].ps_params) :
              /\ ps[q].ps_params[j] (+) ps[q].grad[j].v
                    = ContribBag(q, Len(ps[q].futs), ps[q].ps_keys[j])
              /\ \A f \in 1..Len(ps[q].futs) : ps[q].futs[f].done =>
                    ps[q].futs[f].at_result[j] = ContribBag(q, f, ps[q].ps_keys[j])
        /\ (ps[q].sync_lock = {} /\ ps[q].switches = 0) =>
              /\ ps[q].opt_steps = NumContribs(q) \div pcfg.worker_num
              /\ ps[q].sync_worker_count = NumContribs(q) % pcfg.worker_num

\* Two workers' calls are at the same shard at once, one inside the critical
\* section and one waiting for the lock, after a first completed round.
C11_Witness ==
    /\ pcfg.pc = "run" /\ pcfg.worker_num = 2
    /\ \E q \in PsIds :
          /\ ps[q].switches = 0 /\ ps[q].opt_steps = 1
          /\ calls[<<0, q>>].pc = "test" /\ calls[<<1, q>>].pc = "sent"
          /\ NumContribs(q) = 3

\* worker w's call of the current step has been accumulated by shard q
Contributed(w, q) == calls[<<w, q>>].pc \in {"test", "ret", "await", "done"}

\* C12: in every training step a worker makes exactly one contribution to
\* each shard, and it leaves the fan-out (copies parameters into its model,
\* polls the stop flag, computes the next step) only when the replies of all
\* shards for the step have been received.
C12_FanOutFanIn ==
    /\ [](\A w \in WorkerIds : \A q \in PsIds :
            /\ wk[w].pc = "fanout" =>
                  NumBy(q, w, Len(ps[q].futs))
                      = IF Contributed(w, q) THEN wk[w].iter_count ELSE wk[w].iter_count - 1
            /\ wk[w].pc # "fanout" =>
                  /\ calls[<<w, q>>].pc = "idle"
                  /\ NumBy(q, w, Len(ps[q].futs)) = wk[w].iter_count)
    /\ [][\A w \in WorkerIds :
            (wk[w].pc = "fanout" /\ (wk'[w].pc # "fanout" \/ wk'[w].model # wk[w].model)) =>
                /\ \A q \in PsIds : calls[<<w, q>>].pc = "done"
                /\ wk'[w].pc = "poll"
                /\ \A k \in DOMAIN pcfg.param_ps_idx : wk'[w].model[k].kind = "param"]_vars

\* With 2 shards, a worker in its second step holds the reply of shard 0 and
\* is still waiting for the reply of shard 1.
C12_Witness ==
    /\ pcfg.pc = "run" /\ pcfg.ps_num = 2
    /\ \E w \in WorkerIds :
          /\ wk[w].pc = "fanout" /\ wk[w].iter_count = 2
          /\ calls[<<w, 0>>].pc = "done" /\ calls[<<w, 1>>].pc = "await"

\* worker v has stopped for good and no request of it is on its way to q
Gone(v, q) == wk[v].pc \in {"done", "crashed"} /\ calls[<<v, q>>].pc # "sent"

\* w waits at shard q for a round that v will not join
Stalled(v, w, q) ==
    /\ pcfg.pc = "run" /\ v \in WorkerIds /\ w \in WorkerIds /\ q \in PsIds
    /\ Gone(v, q)
    /\ calls[<<w, q>>].pc \in {"test", "await"}
    /\ ~ps[q].futs[calls[<<w, q>>].ft].done
    /\ \A i \in 1..Len(Contributors(q, calls[<<w, q>>].ft)) :
          Contributors(q, calls[<<w, q>>].ft)[i] # v

Blocked(w, q) ==
    /\ w \in WorkerIds /\ q \in PsIds
    /\ wk[w].pc \in {"fanout", "crashed"}
    /\ calls[<<w, q>>].pc \in {"test", "await"}
    /\ ~ps[q].futs[calls[<<w, q>>].ft].done
    /\ ps[q].ps_comp_future = calls[<<w, q>>].ft

\* C13: wait-for-all mode: once a worker has stopped for good (its loop has
\* ended or its process has died), a worker that has contributed to a round
\* the stopped one has not joined is waiting, and no step of the system ends
\* that wait: its future stays unresolved, the shard stays in that round, and
\* the worker stays in the same step.
C13_MissingContributorBlocks ==
    /\ [](\A v \in WorkerIds : \A w \in WorkerIds : \A q \in PsIds :
             Stalled(v, w, q) => Blocked(w, q))
    /\ [][\A v \in WorkerIds : \A w \in WorkerIds : \A q \in PsIds :
             Stalled(v, w, q) =>
                 /\ Stalled(v, w, q)'
                 /\ calls'[<<w, q>>].ft = calls[<<w, q>>].ft
                 /\ wk'[w].iter_count = wk[w].iter_count]_vars

\* The last worker's loop has ended after fewer batches than the others have,
\* and the two other workers wait at the shard for the round it never joins.
C13_Witness ==
    /\ pcfg.pc = "run" /\ pcfg.worker_num = 3
    /\ wk[2].pc = "done" /\ wk[2].batches = 0
    /\ \E q \in PsIds : Stalled(2, 0, q) /\ Stalled(2, 1, q)
                           /\ calls[<<0, q>>].pc = "await" /\ calls[<<1, q>>].pc = "await"

\* ------------------------------------------------- ring: claims on a stall
RingGone(v) == v \in DOMAIN ring /\ ring[v].pc \in {"done", "crashed"}

RingDead(w) == w \in DOMAIN ring /\ ring[w].pc = "crashed"

\* w is inside get_gradient_slice and its predecessor has nothing to hand over
RingBlocked(w) ==
    /\ w \in DOMAIN ring
    /\ ring[w].pc \in {"rs_get", "ag_get"}
    /\ \/ ring[ring[w].pre_wrk].aggr_msg_q = <<>>
       \/ ring[ring[w].pre_wrk].pc = "crashed"

\* w has more batches than the steps v has taken part in
OutlastsGone(v, w) ==
    /\ RingGone(v) /\ w \in DOMAIN ring /\ w # v
    /\ ring[w].pc # "crashed"
    /\ ring[w].batches > ring[v].step_num

\* C14: ring with W > 1 and a worker that has stopped for good: no worker
\* completes a step the stopped one took no part in; the worker that pulls
\* from the stopped one, and in the end every other worker that has batches
\* left, is never done; from some moment on every worker is inside
\* get_gradient_slice with nothing to pull, or has stopped; a worker whose
\* loop ended first leaves its successor blocked at the first pull of the
\* next step.
C14_RingStall ==
    /\ [](\A v \in DOMAIN ring : \A w \in DOMAIN ring :
             /\ RingGone(v) => Len(ring[w].applied) <= ring[v].step_num
             /\ OutlastsGone(v, w) => ring[w].pc # "done"
             /\ (OutlastsGone(v, w) /\ ring[v].pc = "done" /\ ring[w].pre_wrk = v
                   /\ ring[w].step_num > ring[v].step_num /\ ring[w].pc # "rs_put") =>
                   /\ RingBlocked(w) /\ ring[w].pc = "rs_get" /\ ring[w].idx = 0
                   /\ ring[w].step_num = ring[v].step_num + 1)
    /\ <>[](\A w \in DOMAIN ring : RingBlocked(w) \/ RingGone(w))

\* 3 workers: the last one's loop has ended after one step, and both others
\* are blocked in their second step, the successor at its first pull and the
\* next worker one pull later.
C14_Witness ==
    /\ rcfg.pc = "run" /\ rcfg.wrk_num = 3 /\ ring[2].pc = "done" /\ ring[2].step_num = 1
    /\ RingBlocked(0) /\ ring[0].step_num = 2 /\ ring[0].idx = 0
    /\ RingBlocked(1) /\ ring[1].step_num = 2 /\ ring[1].idx = 1

\* ---------------------------------------------------------- tester: claims
\* C15: a step of the tester's fetch (get_ps_params beginning or replying,
\* get_step_num) changes nothing of a shard, a call or a worker, so every
\* ps_computing step that could be taken before it can be taken after it;
\* and whatever the tester does, even if it stops inside a fetch, every
\* worker completes all its rounds.
C15_FetchTakesNoLock ==
    /\ [][tst' # tst =>
            /\ UNCHANGED <<ps, calls, wk>>
            /\ \A c \in DOMAIN calls :
                  /\ ENABLED PsAccumulate(c[1], c[2]) => (ENABLED PsAccumulate(c[1], c[2]))'
                  /\ ENABLED PsStep(c[1], c[2]) => (ENABLED PsStep(c[1], c[2]))'
                  /\ ENABLED PsNoStep(c[1], c[2]) => (ENABLED PsNoStep(c[1], c[2]))'
                  /\ ENABLED PsReturn(c[1], c[2]) => (ENABLED PsReturn(c[1], c[2]))']_vars
    /\ [](\A q \in PsIds : ps[q].sync_lock \subseteq WorkerIds)
    /\ <>(\A w \in WorkerIds : wk[w].pc = "done" /\ wk[w].iter_count = pcfg.iters)

\* get_ps_params is running on a shard while a worker's call is inside that
\* shard's critical section and another worker's call waits for the lock.
C15_Witness ==
    /\ pcfg.pc = "run" /\ tst.pc = "fetch"
    /\ \E q \in PsIds : \E w, v \in WorkerIds :
          /\ tst.reqs[q] = "running"
          /\ calls[<<w, q>>].pc = "test" /\ calls[<<v, q>>].pc = "sent"

\* -------------------------------------------------------- stop flag: claims
\* the workers of the running program, whichever it is, as pc / steps taken
StopWorkers == IF pcfg.pc = "run" THEN DOMAIN wk ELSE DOMAIN ring
StopPc(w) == IF pcfg.pc = "run" THEN wk[w].pc ELSE ring[w].pc
StopSteps(w) == IF pcfg.pc = "run" THEN wk[w].iter_count ELSE ring[w].step_num
StopBatches(w) == IF pcfg.pc = "run" THEN wk[w].batches ELSE ring[w].batches
StopRec(w) == IF pcfg.pc = "run" THEN wk[w] ELSE ring[w]
\* the position from which a worker reaches its poll: parameters updated
StopUpdated(w) == IF pcfg.pc = "run" THEN wk[w].pc = "fanout" /\ AllReplied(w)
                  ELSE ring[w].pc = "update"

BootWorkers == {p \in DOMAIN mgr.obj : p[1] = "worker"}
BootShards == {p \in DOMAIN mgr.obj : p[1] = "ps"}

\* every participant exists and every shard and worker has its references
BootReady ==
    /\ \A p \in DOMAIN mgr.obj : mgr.obj[p] = "created"
    /\ BootWorkers \cup BootShards \subseteq mgr.set_ok

\* a worker is inside run_worker, or has been
BootStarted(w) ==
    IF mgr.mode = "ps" THEN wk[w].iter_count > 0 \/ wk[w].pc # "compute"
    ELSE ring[w].step_num > 0 \/ ring[w].pc # "compute"

\* C17: once the manager has started any worker's run_worker, and whenever
\* a worker has begun to train, every participant has been created and
\* every shard and worker has had its references set.
C17_BootstrapBarrier ==
    /\ (mgr.futures \cap BootWorkers # {}) => BootReady
    /\ \A p \in BootWorkers : BootStarted(p[2]) => BootReady

\* ---------------------------------------------------------- future claims
\* C18: set_result is called at most once on every future a shard creates,
\* and never on a resolved one: a call that is about to test the trigger
\* holds the pending, unresolved future; every future but the pending one
\* has been resolved exactly once, by the step that ended its round; a
\* resolved future stays resolved with the same result. Mode changes are
\* among the steps.
C18_ResolvedOnce ==
    /\ [](\A q \in PsIds :
            /\ \A f \in 1..Len(ps[q].futs) :
                  /\ ps[q].futs[f].sets <= 1
                  /\ ps[q].futs[f].done <=> ps[q].futs[f].sets = 1
                  /\ ps[q].futs[f].done <=> f # ps[q].ps_comp_future
            /\ \A w \in WorkerIds : calls[<<w, q>>].pc = "test" =>
                  /\ calls[<<w, q>>].ft = ps[q].ps_comp_future
                  /\ ~ps[q].futs[calls[<<w, q>>].ft].done)
    /\ [][\A q \in PsIds :
            \A f \in 1..Len(ps[q].futs) :
               /\ ps[q].futs[f].sets' >= ps[q].futs[f].sets
               /\ ps[q].futs[f].sets' # ps[q].futs[f].sets =>
                     \E w \in WorkerIds : calls[<<w, q>>].pc = "test" /\ calls[<<w, q>>].ft = f
                                          /\ calls[<<w, q>>].pc' = "ret"
               /\ ps[q].futs[f].done =>
                     /\ ps[q].futs[f].done'
                     /\ ps[q].futs[f].at_result' = ps[q].futs[f].at_result]_vars

\* A shard that was switched to step-per-contribution after a wait-for-all
\* round: two futures resolved, one under each mode, and a third pending.
C18_Witness ==
    \E q \in PsIds :
       /\ Len(ps[q].futs) = 3 /\ ps[q].switches = 1 /\ ps[q].sync_mode = 1
       /\ Len(ps[q].futs[1].by) = 2 /\ ps[q].futs[1].sets = 1
       /\ Len(ps[q].futs[2].by) = 1 /\ ps[q].futs[2].sets = 1
       /\ ~ps[q].futs[3].done

\* ------------------------------------------------------- relaunch claims
SecondDone == armgr.pc = "assign" /\ armgr.i = Len(armgr.param_numel)

C20_SingleWorkerNoExchange ==
    (rcfg.pc = "run" /\ rcfg.wrk_num = 1) =>
        /\ ring[0].aggr_msg_q = <<>>
        /\ ring[0].pc \in {"compute", "update", "poll", "done"}
        /\ ring[0].idx = 0
        /\ Len(ring[0].heap) = ring[0].step_num
        /\ \A s \in 1..Len(ring[0].applied) :
              \A k \in DOMAIN rcfg.wrk_pkey_locs : ring[0].applied[s][k] = Atom(0, s, k)
        /\ Len(ring[0].applied) = IF ring[0].pc = "update" THEN ring[0].step_num - 1
                                  ELSE ring[0].step_num

\* The single worker has finished its second step on three parameters.
C20_Witness ==
    /\ rcfg.pc = "run" /\ rcfg.wrk_num = 1
    /\ Cardinality(DOMAIN rcfg.wrk_pkey_locs) = 3
    /\ ring[0].pc = "done" /\ ring[0].step_num = 2 /\ Len(ring[0].applied) = 2

\* ------------------------------------------------------- ring index claims
\* the contributions of the workers v, v-1, ..., v-n (around the ring) to
\* key k at step s, each once
Partial(v, n, s, k) == SetToBag({<<(v - x) % rcfg.wrk_num, s, k>> : x \in 0..n})

\* worker w takes a step out of pc
RingLeaves(w, pc) == ring[w].pc = pc /\ ring[w]'.pc # pc

\* C21: in reduce-scatter iteration i a worker with ring id r deposits its
\* slice (r - i) mod W; what it then receives is its neighbour's list for
\* slice (r - i - 1) mod W, which is the neighbour's send index of its own
\* iteration i and holds contributions to the keys of that slice only; the
\* worker adds it, position by position, into its own slice of that same
\* index and touches no other slice.
C21_ReduceScatterAligned ==
    [][\A w \in DOMAIN ring : rcfg.pc = "run" =>
         LET r == ring[w]
             W == rcfg.wrk_num
             i == r.idx
             send_id == (r.ring_wrk_id - i) % W
             recv_id == (send_id - 1) % W
             p == r.pre_wrk
         IN  /\ RingLeaves(w, "rs_put") =>
                   /\ 0 <= i /\ i < W - 1
                   /\ ring[w]'.aggr_msg_q = Append(r.aggr_msg_q, r.grad_lists[send_id])
                   /\ ring[w]'.heap = r.heap /\ ring[w]'.grad_lists = r.grad_lists
             /\ RingLeaves(w, "rs_get") =>
                   LET obj == Head(ring[p].aggr_msg_q)
                       got == ring[p].heap[obj]
                   IN  /\ p = (r.ring_wrk_id - 1) % W
                       /\ recv_id = (ring[p].ring_wrk_id - i) % W
                       /\ obj = ring[p].grad_lists[recv_id]
                       /\ Len(got) = SliceLen(recv_id)
                       /\ \A j \in 1..Len(got) :
                             got[j] = Partial(p, i, r.step_num, rcfg.wrk_pkey_lists[recv_id][j])
                       /\ ring[w]'.grad_lists = r.grad_lists
                       /\ \A sl \in RingIds :
                             ring[w]'.heap[r.grad_lists[sl]] =
                                IF sl = recv_id THEN AddInto(r.heap[r.grad_lists[sl]], got)
                                ELSE r.heap[r.grad_lists[sl]]
                       /\ \A j \in 1..SliceLen(recv_id) :
                             ring[w]'.heap[r.grad_lists[recv_id]][j] =
                                Partial(w, i + 1, r.step_num, rcfg.wrk_pkey_lists[recv_id][j])]_vars

\* Four workers, one parameter per slice: worker 2 has made its first two
\* receptions of the reduce-scatter loop and is about to deposit in i = 2.
C21_Witness ==
    /\ rcfg.pc = "run" /\ rcfg.wrk_num = 4
    /\ \A i \in RingIds : SliceLen(i) = 1
    /\ ring[2].pc = "rs_put" /\ ring[2].idx = 2 /\ ring[2].step_num = 2

\* slice sl of worker w holds, at every position, every worker's contribution
\* of w's current step to that key, each once
FullyReduced(w, sl) ==
    /\ Len(ring[w].heap[ring[w].grad_lists[sl]]) = SliceLen(sl)
    /\ \A j \in 1..SliceLen(sl) :
          Held(w, sl, j) = FullSum(ring[w].step_num, rcfg.wrk_pkey_lists[sl][j])

\* C22: a worker with ring id r that has left the reduce-scatter loop holds
\* slice (r + 1) mod W fully reduced; at all-gather iteration i it holds the
\* i + 1 slices (r + 1), r, ..., (r + 1 - i) mod W fully reduced, the slice
\* it deposits in that iteration being the last of them; after the loop it
\* holds all W slices fully reduced.
C22_AllGatherCirculatesReduced ==
    /\ [](\A w \in 0..(MaxWrk - 1) : (rcfg.pc = "run" /\ w \in DOMAIN ring) =>
            /\ ring[w].pc \in {"ag_put", "ag_get"} =>
                  /\ ring[w].idx \in 0..(rcfg.wrk_num - 2)
                  /\ \A x \in 0..ring[w].idx :
                        FullyReduced(w, (ring[w].ring_wrk_id + 1 - x) % rcfg.wrk_num)
            /\ (ring[w].pc = "update" /\ rcfg.wrk_num > 1) =>
                  \A sl \in RingIds : FullyReduced(w, sl))
    /\ [][\A w \in 0..(MaxWrk - 1) : (rcfg.pc = "run" /\ w \in DOMAIN ring) =>
            /\ RingLeaves(w, "rs_get") /\ ring[w]'.pc = "ag_put" =>
                  /\ ring[w].idx = rcfg.wrk_num - 2
                  /\ \A sl \in RingIds : sl = (ring[w].ring_wrk_id + 1) % rcfg.wrk_num =>
                        FullyReduced(w, sl)'
            /\ RingLeaves(w, "ag_put") =>
                  LET sl == (ring[w].ring_wrk_id + 1 - ring[w].idx) % rcfg.wrk_num
                  IN  /\ ring[w]'.aggr_msg_q = Append(ring[w].aggr_msg_q, ring[w].grad_lists[sl])
                      /\ FullyReduced(w, sl)
            /\ RingLeaves(w, "ag_get") =>
                  \A sl \in RingIds : sl = (ring[w].ring_wrk_id - ring[w].idx) % rcfg.wrk_num =>
                     FullyReduced(w, sl)']_vars

\* Three workers, one parameter per slice: worker 1 has stored its first
\* all-gather reception while worker 2 is still in the reduce-scatter loop.
C22_Witness ==
    /\ rcfg.pc = "run" /\ rcfg.wrk_num = 3
    /\ \A i \in RingIds : SliceLen(i) = 1
    /\ ring[1].pc = "ag_put" /\ ring[1].idx = 1
    /\ ring[2].pc = "rs_get"

\* ------------------------------------------------- applied gradient claims
\* the contributions for key k that shard q has received since its last
\* step, each once
RoundBag(q, k) ==
    ContribBag(q, ps[q].ps_comp_future, k) (-) ContribBag(q, ps[q].ps_comp_future - 1, k)

\* C23: the accumulation buffer of a shard is None before the first
\* contribution after a step and otherwise the sum of the contributions
\* received since that step, each once; the optimizer step that closes the
\* round applies exactly that sum to every parameter of the shard: one
\* contribution per call taken since the previous step, nothing of an
\* earlier round, nothing scaled.
C23_AppliedIsRoundSum ==
    /\ [](\A q \in PsIds : \A j \in 1..Len(ps[q].ps_params) :
            /\ ps[q].grad[j].none <=> ps[q].futs[ps[q].ps_comp_future].by = <<>>
            /\ ~ps[q].grad[j].none =>
                  /\ ps[q].grad[j].v = RoundBag(q, ps[q].ps_keys[j])
                  /\ BagCardinality(ps[q].grad[j].v) = Len(ps[q].futs[ps[q].ps_comp_future].by)
                  /\ \A a \in BagToSet(ps[q].grad[j].v) : CopiesIn(a, ps[q].grad[j].v) = 1)
    /\ [][\A q \in PsIds : ps[q].opt_steps' # ps[q].opt_steps =>
            /\ ps[q].opt_steps' = ps[q].opt_steps + 1
            /\ Len(ps[q].futs[ps[q].ps_comp_future].by) >= 1
            /\ \A j \in 1..Len(ps[q].ps_params) :
                  /\ ps[q].ps_params'[j] = ps[q].ps_params[j] (+) RoundBag(q, ps[q].ps_keys[j])
                  /\ BagCardinality(RoundBag(q, ps[q].ps_keys[j]))
                        = Len(ps[q].futs[ps[q].ps_comp_future].by)
                  /\ ps[q].grad'[j].none]_vars

\* A shard of two workers has just taken the step that closes its second
\* wait-for-all round; the call that took it has not returned yet.
C23_Witness ==
    /\ pcfg.pc = "run" /\ pcfg.worker_num = 2
    /\ \E q \in PsIds :
          /\ ps[q].switches = 0 /\ ps[q].opt_steps = 2
          /\ Len(ps[q].futs[2].by) = 2
          /\ \E w \in WorkerIds : calls[<<w, q>>].pc = "ret"

\* ----------------------------------------------------- mode switch claims
\* the workers whose calls have been taken since shard q's last step
Pending(q) == Range(ps[q].futs[ps[q].ps_comp_future].by)

\* C24: set_sync_mode can act in every state of a shard, whatever is
\* pending. A call decides on the step with the mode it read when it took
\* the lock, whatever the shard's mode is by then. A call that read
\* step-per-contribution steps over everything accumulated: when k calls
\* were pending from wait-for-all, the step covers all k + 1 contributions,
\* resolves the one future all k + 1 contributors hold, and leaves nothing
\* pending.
C24_SwitchKeepsPending ==
    /\ [](\A q \in PsIds : \A m \in {0, 1} :
            (ps[q].sync_mode # m /\ ps[q].switches < MaxSwitches) => ENABLED SetSyncMode(q, m))
    /\ [][\A q \in PsIds : \A w \in WorkerIds :
            LET c == calls[<<w, q>>] IN
            /\ (c.pc = "test" /\ calls[<<w, q>>]'.pc = "test") =>
                  calls[<<w, q>>]' = c
            /\ (c.pc = "test" /\ calls[<<w, q>>]'.pc # "test") =>
                  /\ (ps[q].opt_steps' = ps[q].opt_steps + 1)
                        <=> (c.sync_mode = 1 \/ ps[q].sync_worker_count >= pcfg.worker_num)
                  /\ ps[q].opt_steps' \in {ps[q].opt_steps, ps[q].opt_steps + 1}
            /\ (c.pc = "test" /\ calls[<<w, q>>]'.pc # "test" /\ c.sync_mode = 1) =>
                  /\ w \in Pending(q)
                  /\ Cardinality(Pending(q)) = ps[q].sync_worker_count
                  /\ Len(ps[q].futs[ps[q].ps_comp_future].by) = ps[q].sync_worker_count
                  /\ \A v \in Pending(q) \ {w} :
                        calls[<<v, q>>].pc = "await" /\ calls[<<v, q>>].ft = c.ft
                  /\ c.ft = ps[q].ps_comp_future
                  /\ \A j \in 1..Len(ps[q].ps_params) :
                        ps[q].ps_params'[j] = ps[q].ps_params[j] (+) RoundBag(q, ps[q].ps_keys[j])
                  /\ \A f \in 1..Len(ps[q].futs) : ps[q].futs'[f].done
                  /\ ps[q].sync_worker_count' = 0]_vars

\* Three workers, wait-for-all: one contribution was pending when the shard
\* was switched; the second contribution has stepped over both and resolved
\* the future both hold, with the third worker's call still to come.
C24_Witness ==
    /\ pcfg.pc = "run" /\ pcfg.worker_num = 3
    /\ \E q \in PsIds :
          /\ ps[q].switches = 1 /\ ps[q].sync_mode = 1 /\ ps[q].opt_steps = 1
          /\ Len(ps[q].futs[1].by) = 2 /\ ps[q].futs[1].done
          /\ \E v, w \in WorkerIds :
                /\ calls[<<v, q>>].pc = "await" /\ calls[<<v, q>>].ft = 1
                /\ calls[<<w, q>>].pc = "ret" /\ calls[<<w, q>>].sync_mode = 1

\* ---------------------------------------------------- ps progress claims
\* every worker has completed all its steps and every contribution has been
\* answered
PsFinished ==
    /\ \A w \in WorkerIds : wk[w].pc = "done" /\ wk[w].iter_count = wk[w].batches
    /\ \A c \in CallIds : calls[c].pc \in {"idle", "done"}
    /\ \A q \in PsIds :
          /\ ps[q].sync_lock = {}
          /\ \A f \in 1..Len(ps[q].futs) : ps[q].futs[f].by # <<>> => ps[q].futs[f].done

\* C25: in wait-for-all mode with workers that all run the same number of
\* steps, no state short of the end is stuck, and under fair scheduling the
\* job reaches the end: every future that received a contribution is
\* resolved and every worker has completed every step.
C25_WaitForAllProgress ==
    /\ [](pcfg.pc = "run" => (PsFinished \/ ENABLED TrainStep))
    /\ <>[](pcfg.pc = "run" /\ PsFinished)

\* Two workers and two shards: both workers have completed their step, each
\* shard having closed one round.
C25_Witness ==
    /\ pcfg.pc = "run" /\ pcfg.worker_num = 2 /\ pcfg.ps_num = 2
    /\ PsFinished
    /\ \A q \in PsIds : ps[q].opt_steps = 1 /\ Len(ps[q].futs[1].by) = 2

\* --------------------------------------------------- ring progress claims
\* every worker has completed all its steps and every deposited slice has
\* been taken
RingFinished ==
    \A w \in DOMAIN ring :
       /\ ring[w].pc = "done" /\ ring[w].step_num = ring[w].batches
       /\ Len(ring[w].applied) = ring[w].batches
       /\ ring[w].aggr_msg_q = <<>>

\* C26: with workers that all run the same number of steps no state short of
\* the end is stuck, whatever the workers' relative speeds, and under fair
\* scheduling the job reaches the end: every worker has completed every
\* step, so every get_gradient_slice call has returned, and no deposited
\* slice is left.
C26_RingProgress ==
    /\ [](rcfg.pc = "run" => (RingFinished \/ ENABLED RingNext))
    /\ <>[](rcfg.pc = "run" /\ RingFinished)

\* Three workers have each completed two steps.
C26_Witness ==
    /\ rcfg.pc = "run" /\ rcfg.wrk_num = 3 /\ RingFinished
    /\ \A w \in DOMAIN ring : ring[w].step_num = 2
    /\ \A i \in RingIds : SliceLen(i) = 1

\* -------------------------------------------------------- ring queue claims
\* C27: for every worker the k-th slice it has obtained is the k-th its
\* neighbour has deposited, the very list object, deposited in the same
\* training step, loop and iteration as the ones the worker obtained it in;
\* what the neighbour's queue holds is exactly the deposits not yet
\* obtained, in order, so each deposit is obtained once and none is lost.
C27_QueueOrder ==
    rcfg.pc = "run" =>
       \A w \in DOMAIN ring :
          LET p == ring[w].pre_wrk
              n == Len(ring[w].gets)
          IN  /\ n <= Len(ring[p].puts)
              /\ \A k \in 1..n : ring[w].gets[k] = ring[p].puts[k]
              /\ ring[p].aggr_msg_q = [k \in 1..(Len(ring[p].puts) - n) |-> ring[p].puts[n + k][1]]

\* Three workers: worker 0 has run ahead into the all-gather loop; worker 1
\* has obtained the first of its deposits and two more are waiting, one of
\* each loop.
C27_Witness ==
    /\ rcfg.pc = "run" /\ rcfg.wrk_num = 3
    /\ Len(ring[1].gets) = 1
    /\ Len(ring[0].aggr_msg_q) = 2
    /\ ring[0].puts[2][3] = "rs" /\ ring[0].puts[3][3] = "ag"

\* ----------------------------------------------------- shard round claims
\* the call of worker w at shard q holds a future
HasFuture(w, q) == calls[<<w, q>>].pc \in {"test", "ret", "await", "done"}

\* C28: in wait-for-all mode the shards' numbers of completed rounds differ
\* by at most 1; within a training step n of a worker every future it holds
\* or has received the result of, at whatever shard, is that shard's round
\* n, and a result it has received is the shard's parameters after exactly
\* n rounds.
C28_ShardsInStep ==
    /\ \A q1, q2 \in PsIds :
          /\ ps[q1].opt_steps - ps[q2].opt_steps \in {-1, 0, 1}
          /\ ps[q1].opt_steps = Len(ps[q1].futs) - 1
    /\ \A w \in WorkerIds : \A q \in PsIds :
          /\ HasFuture(w, q) => calls[<<w, q>>].ft = wk[w].iter_count
          /\ (calls[<<w, q>>].pc = "done" /\ wk[w].pc = "fanout") =>
                /\ ps[q].opt_steps = wk[w].iter_count
                /\ \A j \in 1..Len(ps[q].ps_params) :
                      wk[w].lists[q][j] =
                          ParamEntry(ps[q].futs[wk[w].iter_count].at_result[j])
    /\ \A w \in WorkerIds : \A q1, q2 \in PsIds :
          (HasFuture(w, q1) /\ HasFuture(w, q2)) => calls[<<w, q1>>].ft = calls[<<w, q2>>].ft

\* One worker, two shards: in its second step the worker has received round
\* 2 from shard 0 while shard 1 has completed one round only.
C28_Witness ==
    /\ pcfg.pc = "run" /\ pcfg.ps_num = 2
    /\ ps[0].opt_steps = 2 /\ ps[1].opt_steps = 1
    /\ wk[0].pc = "fanout" /\ wk[0].iter_count = 2
    /\ calls[<<0, 0>>].pc = "done" /\ calls[<<0, 0>>].ft = 2

\* ---------------------------------------------------- shard state claims
\* C29: whenever no call holds a shard's lock, in either mode and across
\* mode changes: sync_worker_count is at least 0 and below worker_num, the
\* pending future is unresolved, and every parameter's accumulated gradient
\* is None when the counter is 0 and none is None otherwise.
C29_LockFreeState ==
    \A q \in PsIds : ps[q].sync_lock = {} =>
        /\ 0 <= ps[q].sync_worker_count
        /\ ps[q].sync_worker_count < pcfg.worker_num
        /\ ~ps[q].futs[ps[q].ps_comp_future].done
        /\ ps[q].futs[ps[q].ps_comp_future].sets = 0
        /\ ps[q].sync_worker_count = 0 => \A j \in 1..Len(ps[q].grad) : ps[q].grad[j].none
        /\ ps[q].sync_worker_count # 0 => \A j \in 1..Len(ps[q].grad) : ~ps[q].grad[j].none
        /\ Len(ps[q].grad) = Len(ps[q].ps_params) /\ Len(ps[q].grad) >= 1

\* Three workers: two contributions are pending at a shard whose lock is
\* free; the round is still open.
C29_Witness ==
    /\ pcfg.pc = "run" /\ pcfg.worker_num = 3
    /\ \E q \in PsIds :
          /\ ps[q].sync_lock = {} /\ ps[q].sync_worker_count = 2
          /\ \A j \in 1..Len(ps[q].grad) : ~ps[q].grad[j].none

\* -------------------------------------------------- round membership claims
\* C30: in wait-for-all mode no worker contributes twice to the same round
\* of a shard, and a closed round has one contribution of each of the
\* worker_num workers; a worker whose call for step n is on its way to a
\* shard, or is being taken by it, has had all its earlier contributions
\* to that shard resolved.
C30_DistinctContributors ==
    /\ [](\A q \in PsIds : \A f \in 1..Len(ps[q].futs) :
            /\ \A a, b \in 1..Len(ps[q].futs[f].by) :
                  a # b => ps[q].futs[f].by[a] # ps[q].futs[f].by[b]
            /\ ps[q].futs[f].done =>
                  /\ Len(ps[q].futs[f].by) = pcfg.worker_num
                  /\ Range(ps[q].futs[f].by) = WorkerIds
            /\ \A w \in WorkerIds :
                  (calls[<<w, q>>].pc \in {"start", "sent"} /\ f < wk[w].iter_count) =>
                      /\ ps[q].futs[f].done
                      /\ w \in Range(ps[q].futs[f].by))
    /\ [][\A q \in PsIds : \A w \in WorkerIds :
            (calls[<<w, q>>].pc = "sent" /\ calls[<<w, q>>]'.pc = "test") =>
                /\ w \notin Range(ps[q].futs[ps[q].ps_comp_future].by)
                /\ ps[q].ps_comp_future = wk[w].iter_count
                /\ \A f \in 1..(ps[q].ps_comp_future - 1) :
                      ps[q].futs[f].done /\ w \in Range(ps[q].futs[f].by)]_vars

\* Two workers, one shard: the second round has closed with the two workers'
\* contributions taken in the opposite order to the first round's.
C30_Witness ==
    /\ pcfg.pc = "run" /\ pcfg.worker_num = 2
    /\ \E q \in PsIds :
          /\ Len(ps[q].futs) = 3 /\ ps[q].futs[2].done
          /\ ps[q].futs[1].by = <<0, 1>> /\ ps[q].futs[2].by = <<1, 0>>

\* ------------------------------------------------------- fan-in copy claims
\* the atoms of bag b are all contributions to key k
OnlyKey(b, k) == \A a \in BagToSet(b) : a[3] = k

\* C31: the fan-in of step n gives every parameter name k the element at
\* position param_loc_idx[k] of the list shard param_ps_idx[k] returned in
\* this step. That list replaced the worker's list for the shard when the
\* reply came; its element for k is a value of the shard's parameter k, no
\* older than what the shard resolved the call's future with and no newer
\* than the shard's value now, and it holds the worker's own gradient of
\* step n, which no value of an earlier step does.
C31_FanInCopiesByLookup ==
    /\ [](\A w \in WorkerIds : wk[w].pc = "poll" =>
            /\ DOMAIN wk[w].model = DOMAIN pcfg.param_ps_idx
            /\ \A k \in DOMAIN pcfg.param_ps_idx :
                  LET q == pcfg.param_ps_idx[k]
                      j == pcfg.param_loc_idx[k] + 1
                  IN  /\ ps[q].ps_keys[j] = k
                      /\ wk[w].model[k] = wk[w].lists[q][j]
                      /\ wk[w].model[k].kind = "param"
                      /\ OnlyKey(wk[w].model[k].v, k)
                      /\ CopiesIn(<<w, wk[w].iter_count, k>>, wk[w].model[k].v) = 1
                      /\ wk[w].model[k].v \sqsubseteq ps[q].ps_params[j])
    /\ [][\A w \in WorkerIds : (wk[w].pc = "fanout" /\ wk[w]'.pc = "poll") =>
            \A k \in DOMAIN pcfg.param_ps_idx :
               LET q == pcfg.param_ps_idx[k]
                   j == pcfg.param_loc_idx[k] + 1
               IN  /\ calls[<<w, q>>].pc = "done"
                   /\ wk[w]'.model[k] = wk[w].lists[q][j]
                   /\ ps[q].futs[calls[<<w, q>>].ft].at_result[j] \sqsubseteq wk[w].lists[q][j].v]_vars

\* Two shards, three parameters: a worker has finished the fan-in of its
\* second step.
C31_Witness ==
    /\ pcfg.pc = "run" /\ pcfg.ps_num = 2
    /\ wk[0].pc = "poll" /\ wk[0].iter_count = 2
    /\ Cardinality(DOMAIN wk[0].model) = 3

\* ------------------------------------------------- shared list object claims
\* C32: grad_lists and param_lists are one list, yet every slice a worker
\* submits in step s holds at every position the gradient it computed in
\* step s for the key the shard keeps there (never a parameter value of a
\* reply, a gradient of an earlier step or None), and storing the reply of
\* one shard changes neither the worker's list for another shard nor a
\* request made or still to be made to another shard.
C32_SubmittedSliceIsFresh ==
    /\ [](\A w \in WorkerIds : \A q \in PsIds :
            /\ calls[<<w, q>>].pc = "sent" =>
                  /\ Len(calls[<<w, q>>].gradients) = Len(ps[q].ps_keys)
                  /\ \A j \in 1..Len(ps[q].ps_keys) :
                        calls[<<w, q>>].gradients[j] =
                            GradEntry(Atom(w, wk[w].iter_count, ps[q].ps_keys[j]))
            /\ (wk[w].pc = "fanout" /\ calls[<<w, q>>].pc = "start") =>
                  \A j \in 1..Len(ps[q].ps_keys) :
                        wk[w].lists[q][j] =
                            GradEntry(Atom(w, wk[w].iter_count, ps[q].ps_keys[j])))
    /\ [][\A w \in WorkerIds : \A q \in PsIds :
            (calls[<<w, q>>].pc = "await" /\ calls[<<w, q>>]'.pc = "done") =>
                /\ wk[w]'.lists[q] # wk[w].lists[q]
                /\ \A o \in PsIds \ {q} :
                      /\ wk[w]'.lists[o] = wk[w].lists[o]
                      /\ calls[<<w, o>>]' = calls[<<w, o>>]]_vars

\* In its second step a worker has stored the reply of shard 0 in the shared
\* list and has just made its request to shard 1.
C32_Witness ==
    /\ pcfg.pc = "run" /\ pcfg.ps_num = 2
    /\ wk[0].iter_count = 2 /\ wk[0].pc = "fanout"
    /\ calls[<<0, 0>>].pc = "done"
    /\ wk[0].lists[0][1].kind = "param"
    /\ calls[<<0, 1>>].pc = "sent"

\* ------------------------------------------------------ backpressure claims
\* the step, loop and iteration an entry of puts or gets was logged with
ExchangeOf(e) == <<e[2], e[3], e[4]>>

\* C33: a worker deposits the slice of its next exchange only when its
\* previous exchange is complete: it has made as many retrievals as deposits,
\* retrieval i was made in the step, loop and iteration of deposit i, and
\* between a deposit and its retrieval the worker does nothing but wait for
\* the retrieval. The logs run over both loops and over all steps, so this
\* holds from reduce-scatter to all-gather and from one step to the next.
C33_DepositAfterExchange ==
    /\ [](rcfg.pc = "run" => \A w \in RingIds :
            /\ Len(ring[w].puts) - Len(ring[w].gets) =
                   (IF ring[w].pc \in {"rs_get", "ag_get"} THEN 1 ELSE 0)
            /\ \A i \in 1..Len(ring[w].gets) :
                   ExchangeOf(ring[w].gets[i]) = ExchangeOf(ring[w].puts[i]))
    /\ [][rcfg.pc = "run" => \A w \in RingIds :
            Len(ring[w]'.puts) > Len(ring[w].puts) =>
                /\ Len(ring[w].gets) = Len(ring[w].puts)
                /\ Len(ring[w]'.puts) = Len(ring[w].puts) + 1
                /\ ring[w]'.pc \in {"rs_get", "ag_get"}]_vars

\* Three workers: one has made the first deposit of its second step, after
\* the four exchanges of its first step, and waits for the retrieval.
C33_Witness ==
    /\ rcfg.pc = "run" /\ rcfg.wrk_num = 3
    /\ ring[0].step_num = 2 /\ ring[0].pc = "rs_get" /\ ring[0].idx = 0
    /\ Len(ring[0].puts) = 5 /\ Len(ring[0].gets) = 4
    /\ ExchangeOf(ring[0].gets[4]) = <<1, "ag", 1>>

\* the worker whose pre_wrk is w: the only one that takes from w's queue
RingSucc(w) == (w + 1) % rcfg.wrk_num

\* C34: whatever the relative speed of the W workers, a worker's aggr_msg_q
\* never holds more than W slices. What it holds is what the worker has
\* deposited and its successor has not yet taken, in the order of deposit.
C34_QueueAtMostW ==
    rcfg.pc = "run" => \A w \in RingIds :
        /\ Len(ring[w].aggr_msg_q) <= rcfg.wrk_num
        /\ Len(ring[w].aggr_msg_q) = Len(ring[w].puts) - Len(ring[RingSucc(w)].gets)
        /\ \A i \in 1..Len(ring[w].aggr_msg_q) :
              ring[w].aggr_msg_q[i] = ring[w].puts[Len(ring[RingSucc(w)].gets) + i][1]

\* Three workers: the queue of one holds three slices, the bound itself.
C34_Witness ==
    /\ rcfg.pc = "run" /\ rcfg.wrk_num = 3
    /\ \E w \in RingIds : Len(ring[w].aggr_msg_q) = 3

\* ------------------------------------------------------ tester fetch claims
\* the parameters of shard q after r rounds in which every worker took part
ShardAfter(q, r) ==
    [j \in 1..Len(ps[q].ps_keys) |->
        SetToBag({<<w, t, ps[q].ps_keys[j]>> : w \in WorkerIds, t \in 1..r})]

\* the rounds whose gradients are in what the tester fetched from shard q
FetchedRounds(q) == Cardinality({a[2] : a \in BagToSet(tst.params[q][1])})

====
